---- MODULE Spec2Model ----
(***************************************************************************)
(* A model of the Figma write path of Baur-Software/Figma-To: the source   *)
(* safety gate, the transformation report and the ThemeFile -> Figma       *)
(* Variables transformer, together with the value converters they use.     *)
(*                                                                         *)
(* Strings the code concatenates, splits or lower-cases are sequences of   *)
(* one-character strings; strings the code only compares are TLA+ strings. *)
(* A JavaScript value whose type the code does not fix is a record with a  *)
(* tag field t.                                                            *)
(***************************************************************************)
EXTENDS Integers, Sequences, FiniteSets, TLC

VARIABLES
    theme,        \* the ThemeFile handed to every call of the behaviour
    options,      \* the FigmaOutputAdapterOptions handed to every call
    idCounter,    \* transformer.ts: let idCounter
    result,       \* outcome of the latest call
    prevBody,     \* request body of the transform call before the latest one
    resetSince,   \* resetIdCounter() was called after the latest transform call
    conv,         \* latest application of a value converter or of the parser
    builder,      \* a TransformationReportBuilder of the client's own
    calls         \* the FigmaOutputAdapter.transform calls the callers have made

vars == <<theme, options, idCounter, result, prevBody, resetSince, conv, builder,
         calls>>

-----------------------------------------------------------------------------
(* Bounds of the model *)

\* a theme holds at most this many collections
MaxCollections == 2

\* a colour channel takes the values 0/ColorSteps .. ColorSteps/ColorSteps
ColorSteps == 2

-----------------------------------------------------------------------------
(* JavaScript basics *)

\* the value undefined of an optional string or boolean property
Undefined == "<undefined>"

\* !x is false: a string property is truthy when it is defined and non-empty
Truthy(x) == x # Undefined /\ x # ""

\* x ?? d
Coalesce(x, d) == IF x = Undefined THEN d ELSE x

\* the value undefined of an optional string kept as a sequence of characters
NoStr == <<"<undefined>">>

\* x || d for a string kept as a sequence of characters
OrElse(x, d) == IF x = NoStr \/ x = <<>> THEN d ELSE x

RECURSIVE Join(_, _)
\* Array.prototype.join for an array of strings
Join(parts, sep) ==
    IF parts = <<>> THEN <<>>
    ELSE IF Len(parts) = 1 THEN Head(parts)
    ELSE Head(parts) \o sep \o Join(Tail(parts), sep)

LowerChar(c) ==
    CASE c = "A" -> "a" [] c = "B" -> "b" [] c = "C" -> "c" [] c = "D" -> "d"
      [] c = "E" -> "e" [] c = "F" -> "f" [] c = "G" -> "g" [] c = "H" -> "h"
      [] c = "I" -> "i" [] c = "J" -> "j" [] c = "K" -> "k" [] c = "L" -> "l"
      [] c = "M" -> "m" [] c = "N" -> "n" [] c = "O" -> "o" [] c = "P" -> "p"
      [] c = "Q" -> "q" [] c = "R" -> "r" [] c = "S" -> "s" [] c = "T" -> "t"
      [] c = "U" -> "u" [] c = "V" -> "v" [] c = "W" -> "w" [] c = "X" -> "x"
      [] c = "Y" -> "y" [] c = "Z" -> "z" [] OTHER -> c

\* String.prototype.toLowerCase
toLowerCase(s) == [i \in 1..Len(s) |-> LowerChar(s[i])]

\* tagged JavaScript values
Num(n) == [t |-> "number", n |-> n]
Str(s) == [t |-> "string", s |-> s]
Bool(b) == [t |-> "boolean", b |-> b]
Null == [t |-> "null"]
\* an object or function inherited from Object.prototype
ProtoValue(name) == [t |-> "object", inherited |-> name]

-----------------------------------------------------------------------------
(* Type mapping: transformer.ts *)

\* faulty variant: a duration is mapped to a string variable
TOKEN_TYPE_TO_FIGMADurationString(type) ==
    CASE type = "color" -> "COLOR"
      [] type = "dimension" -> "FLOAT"
      [] type = "number" -> "FLOAT"
      [] type = "string" -> "STRING"
      [] type = "boolean" -> "BOOLEAN"
      [] type = "fontFamily" -> "STRING"
      [] type = "fontWeight" -> "FLOAT"
      [] type = "duration" -> "STRING"
      [] OTHER -> Undefined

TOKEN_TYPE_TO_FIGMA(type) ==
    CASE type = "color" -> "COLOR"
      [] type = "dimension" -> "FLOAT"
      [] type = "number" -> "FLOAT"
      [] type = "string" -> "STRING"
      [] type = "boolean" -> "BOOLEAN"
      [] type = "fontFamily" -> "STRING"
      [] type = "fontWeight" -> "FLOAT"
      [] type = "duration" -> "FLOAT"
      [] OTHER -> Undefined

SKIP_TYPES ==
    <<"typography", "shadow", "border", "gradient",
      "cubicBezier", "transition", "animation", "keyframes">>

\* faulty variant: border is missing from the list
IsSkipTypeNoBorder(type) ==
    type \in {"typography", "shadow", "gradient", "cubicBezier", "transition",
              "animation", "keyframes"}

\* SKIP_TYPES.includes(type)
IsSkipType(type) == \E i \in 1..Len(SKIP_TYPES) : SKIP_TYPES[i] = type

-----------------------------------------------------------------------------
(* ID generation: transformer.ts *)

\* `${prefix}_${++idCounter}` with the counter it leaves behind
generateTempId(prefix, counter) ==
    [id |-> [prefix |-> prefix, n |-> counter + 1], counter |-> counter + 1]

\* faulty variant: the counter is left where it stands
resetIdCounterKeeps(counter) == counter

\* the counter resetIdCounter() leaves behind
resetIdCounter(counter) == 0

-----------------------------------------------------------------------------
(* Transformation report: report.ts *)

NewReport ==
    [stats |-> [collectionsCreated |-> 0, modesCreated |-> 0,
                variablesCreated |-> 0, valuesSet |-> 0,
                skipped |-> 0, warnings |-> 0],
     skipped |-> <<>>,
     warnings |-> <<>>,
     sourceCheck |-> [sourceFileKey |-> Undefined, targetFileKey |-> Undefined,
                      isSameFile |-> FALSE, overwriteAllowed |-> FALSE]]

addCollection(report) ==
    [report EXCEPT !.stats.collectionsCreated = @ + 1]

addMode(report) ==
    [report EXCEPT !.stats.modesCreated = @ + 1]

addVariable(report) ==
    [report EXCEPT !.stats.variablesCreated = @ + 1]

addValue(report) ==
    [report EXCEPT !.stats.valuesSet = @ + 1]

\* faulty variant: the entry is appended and the counter stays
addSkippedNoCount(report, path, reason, originalType, suggestion) ==
    [report EXCEPT
        !.skipped = Append(@, [path |-> path, reason |-> reason,
                               originalType |-> originalType,
                               suggestion |-> suggestion])]

addSkipped(report, path, reason, originalType, suggestion) ==
    [report EXCEPT
        !.stats.skipped = @ + 1,
        !.skipped = Append(@, [path |-> path, reason |-> reason,
                               originalType |-> originalType,
                               suggestion |-> suggestion])]

addWarning(report, code, message, path) ==
    [report EXCEPT
        !.stats.warnings = @ + 1,
        !.warnings = Append(@, [code |-> code, message |-> message, path |-> path])]

setSourceCheck(report, sourceFileKey, targetFileKey, overwriteAllowed) ==
    [report EXCEPT
        !.sourceCheck = [sourceFileKey |-> sourceFileKey,
                         targetFileKey |-> targetFileKey,
                         isSameFile |-> sourceFileKey # Undefined
                                        /\ targetFileKey # Undefined
                                        /\ sourceFileKey = targetFileKey,
                         overwriteAllowed |-> overwriteAllowed]]

-----------------------------------------------------------------------------
(* Token schema: tokens, groups, collections (schema/tokens.ts) *)

\* a leaf: { $type, $value, $description?, $extensions? }
Token(type, value, description, hidden) ==
    [kind |-> "token", type |-> type, value |-> value,
     description |-> description, hidden |-> hidden]

\* a group: an ordered mapping key -> node, given as a sequence of entries
Group(entries) == [kind |-> "group", entries |-> entries]

\* a metadata string such as $description
StringNode(s) == [kind |-> "string", s |-> s]

UndefinedNode == [kind |-> "undefined"]

Entry(key, node) == [key |-> key, node |-> node]

\* key in group (own keys of a group object)
HasKey(group, key) == \E i \in 1..Len(group.entries) : group.entries[i].key = key

\* group[key]
Child(group, key) ==
    group.entries[CHOOSE i \in 1..Len(group.entries) : group.entries[i].key = key].node

\* { $ref: "{a.b.c}" }
TokenReference(ref) == [t |-> "ref", ref |-> ref]

\* isTokenReference(value): the value is an object holding $ref
isTokenReference(value) == value.t = "ref"

\* values of the tagged union Token.$value
ColorValue(r, g, b, a) == [t |-> "rgba", r |-> r, g |-> g, b |-> b, a |-> a]
UnitValue(value, unit) == [t |-> "unitValue", value |-> value, unit |-> unit]
ArrayValue(items) == [t |-> "array", items |-> items]
CompositeValue == [t |-> "composite"]

-----------------------------------------------------------------------------
(* Value converters: transformer.ts *)

\* faulty variant: the red and the blue channel change places
colorToFigmaRGBASwapped(color) ==
    [t |-> "rgba", r |-> color.b, g |-> color.g, b |-> color.r, a |-> color.a]

colorToFigmaRGBA(color) ==
    [t |-> "rgba", r |-> color.r, g |-> color.g, b |-> color.b, a |-> color.a]

\* faulty variant: the unit is dropped without a warning
dimensionToNumberSilent(dim, report, path) ==
    [value |-> Num(dim.value), report |-> report]

\* returns the number and the report it leaves behind
dimensionToNumber(dim, report, path) ==
    [value |-> Num(dim.value),
     report |-> IF dim.unit # "px"
                THEN addWarning(report, "UNIT_DISCARDED", dim.unit, path)
                ELSE report]

\* own properties of the keywords object literal
keywords ==
    { <<<<"t","h","i","n">>, 100>>,
      <<<<"h","a","i","r","l","i","n","e">>, 100>>,
      <<<<"e","x","t","r","a","l","i","g","h","t">>, 200>>,
      <<<<"u","l","t","r","a","l","i","g","h","t">>, 200>>,
      <<<<"l","i","g","h","t">>, 300>>,
      <<<<"n","o","r","m","a","l">>, 400>>,
      <<<<"r","e","g","u","l","a","r">>, 400>>,
      <<<<"m","e","d","i","u","m">>, 500>>,
      <<<<"s","e","m","i","b","o","l","d">>, 600>>,
      <<<<"d","e","m","i","b","o","l","d">>, 600>>,
      <<<<"b","o","l","d">>, 700>>,
      <<<<"e","x","t","r","a","b","o","l","d">>, 800>>,
      <<<<"u","l","t","r","a","b","o","l","d">>, 800>>,
      <<<<"b","l","a","c","k">>, 900>>,
      <<<<"h","e","a","v","y">>, 900>> }

\* property names every object literal inherits from Object.prototype
ObjectPrototypeKeys ==
    { <<"c","o","n","s","t","r","u","c","t","o","r">>,
      <<"_","_","p","r","o","t","o","_","_">>,
      <<"h","a","s","O","w","n","P","r","o","p","e","r","t","y">>,
      <<"i","s","P","r","o","t","o","t","y","p","e","O","f">>,
      <<"p","r","o","p","e","r","t","y","I","s","E","n","u","m","e","r","a","b","l","e">>,
      <<"t","o","L","o","c","a","l","e","S","t","r","i","n","g">>,
      <<"t","o","S","t","r","i","n","g">>,
      <<"v","a","l","u","e","O","f">> }

\* obj[key] for an object literal with the given own properties: an own
\* property, else what the prototype chain holds, else undefined (Null here)
PropertyLookup(own, key) ==
    IF \E p \in own : p[1] = key
    THEN Num((CHOOSE p \in own : p[1] = key)[2])
    ELSE IF key \in ObjectPrototypeKeys THEN ProtoValue(key)
    ELSE Null

fontWeightToNumber(weight) ==
    IF weight.t = "number" THEN weight
    ELSE LET found == PropertyLookup(keywords, toLowerCase(weight.s))
         IN  IF found = Null THEN Num(400) ELSE found

\* styles-transformer.ts: the same conversion, with its own keywords literal
normalizeFontWeight(weight) ==
    IF weight.t = "number" THEN weight
    ELSE LET found == PropertyLookup(keywords, toLowerCase(weight.s))
         IN  IF found = Null THEN Num(400) ELSE found

\* parser.ts: Figma RGBA -> ColorValue
convertFigmaColor(color) ==
    [t |-> "rgba", r |-> color.r, g |-> color.g, b |-> color.b, a |-> color.a]

\* faulty variant: a reference is dropped without an entry in the report
tokenValueToFigmaSilentReference(token, report, path) ==
    IF isTokenReference(token.value)
    THEN [value |-> Null, report |-> report]
    ELSE CASE token.type = "color" ->
                [value |-> colorToFigmaRGBA(token.value), report |-> report]
           [] token.type = "dimension" ->
                dimensionToNumber(token.value, report, path)
           [] token.type \in {"number", "string", "boolean"} ->
                [value |-> token.value, report |-> report]
           [] token.type = "fontFamily" ->
                LET families == token.value.items IN
                [value |-> IF families = <<>> \/ families[1] = <<>>
                           THEN Str(<<>>) ELSE Str(families[1]),
                 report |-> IF Len(families) > 1
                            THEN addWarning(report, "VALUE_TRUNCATED", families[1], path)
                            ELSE report]
           [] token.type = "fontWeight" ->
                [value |-> fontWeightToNumber(token.value), report |-> report]
           [] token.type = "duration" ->
                [value |-> Num(IF token.value.unit = "s"
                               THEN token.value.value * 1000
                               ELSE token.value.value),
                 report |-> report]
           [] OTHER ->
                [value |-> Null, report |-> report]

\* faulty variant: a reference is written out as a string value
tokenValueToFigmaReferenceAsString(token, report, path) ==
    IF isTokenReference(token.value)
    THEN [value |-> Str(token.value.ref), report |-> report]
    ELSE tokenValueToFigmaSilentReference(token, report, path)

\* returns the Figma value (Null for none) and the report it leaves behind
tokenValueToFigma(token, report, path) ==
    IF isTokenReference(token.value)
    THEN [value |-> Null,
          report |-> addSkipped(report, path, "Token references require special handling",
                                token.type, "References will be supported in a future update")]
    ELSE CASE token.type = "color" ->
                [value |-> colorToFigmaRGBA(token.value), report |-> report]
           [] token.type = "dimension" ->
                dimensionToNumber(token.value, report, path)
           [] token.type \in {"number", "string", "boolean"} ->
                [value |-> token.value, report |-> report]
           [] token.type = "fontFamily" ->
                LET families == token.value.items IN
                [value |-> IF families = <<>> \/ families[1] = <<>>
                           THEN Str(<<>>) ELSE Str(families[1]),
                 report |-> IF Len(families) > 1
                            THEN addWarning(report, "VALUE_TRUNCATED", families[1], path)
                            ELSE report]
           [] token.type = "fontWeight" ->
                [value |-> fontWeightToNumber(token.value), report |-> report]
           [] token.type = "duration" ->
                [value |-> Num(IF token.value.unit = "s"
                               THEN token.value.value * 1000
                               ELSE token.value.value),
                 report |-> report]
           [] OTHER ->
                [value |-> Null, report |-> report]

-----------------------------------------------------------------------------
(* Object identity of the values handed out: transformer.ts *)

\* typeof v === 'object': a write to a field of v is seen through every
\* reference to v; numbers, strings and booleans are copied when handed on
IsObject(value) == value.t \notin {"number", "string", "boolean", "null"}

\* faulty variant: the colour object of the token is handed out itself
SharesValueOfColor(token) == token.value.t = "rgba"

\* the value tokenValueToFigma returns for token is the very object
\* token.$value: colorToFigmaRGBA builds an object literal, dimension,
\* fontFamily, fontWeight and duration yield a number or a string, and
\* number, string and boolean hand $value on as it is
SharesValue(token) ==
    CASE isTokenReference(token.value) -> FALSE
      [] token.type = "color" -> FALSE
      [] token.type \in {"number", "string", "boolean"} -> IsObject(token.value)
      [] OTHER -> FALSE

-----------------------------------------------------------------------------
(* Token traversal: transformer.ts *)

\* key.startsWith('$')
StartsWithDollar(key) == Len(key) > 0 /\ key[1] = "$"

RECURSIVE flattenTokens(_, _)
\* depth-first list of [path, token], stopping at the first node with a $type
flattenTokens(group, basePath) ==
    IF group.entries = <<>> THEN <<>>
    ELSE LET e == Head(group.entries)
             rest == flattenTokens(Group(Tail(group.entries)), basePath)
             currentPath == Append(basePath, e.key)
         IN  IF e.node.kind \in {"undefined", "string"} \/ StartsWithDollar(e.key)
             THEN rest
             ELSE IF e.node.kind = "token"
             THEN <<[path |-> currentPath, token |-> e.node]>> \o rest
             ELSE flattenTokens(e.node, currentPath) \o rest

RECURSIVE Navigate(_, _)
\* transformer.ts 379-391: walk the segments of path from current; the node
\* reached when it holds a $type, UndefinedNode otherwise
Navigate(current, path) ==
    IF path = <<>>
    THEN IF current.kind = "token" THEN current ELSE UndefinedNode
    ELSE IF current.kind = "group" /\ HasKey(current, Head(path))
    THEN Navigate(Child(current, Head(path)), Tail(path))
    ELSE UndefinedNode

-----------------------------------------------------------------------------
(* Main transformer: transformer.ts *)

Dot == <<".">>
Slash == <<"/">>

\* options.collectionMapping?.[name] ?? name
MappedName(opts, name) ==
    IF name \in DOMAIN opts.collectionMapping THEN opts.collectionMapping[name] ELSE name

\* collection.tokens[modeName], UndefinedNode when the mode has no tree
ModeTree(collection, modeName) ==
    IF modeName \in DOMAIN collection.tokens THEN collection.tokens[modeName]
    ELSE UndefinedNode

RECURSIVE CreateModesFirstIsDefault(_, _, _, _, _)
\* faulty variant: the first mode listed is taken for the default mode
CreateModesFirstIsDefault(s, collection, prefix, collectionId, i) ==
    IF i > Len(collection.modes) THEN s
    ELSE LET modeName == collection.modes[i] IN
         IF i = 1
         THEN CreateModesFirstIsDefault(s, collection, prefix, collectionId, i + 1)
         ELSE LET g == generateTempId(prefix \o <<"_","m","o","d","e">>, s.counter)
                  modeCreate == [action |-> "CREATE", id |-> g.id, name |-> modeName,
                                 variableCollectionId |-> collectionId]
              IN  CreateModesFirstIsDefault(
                    [s EXCEPT !.counter = g.counter,
                              !.modeIds = (modeName :> g.id) @@ @,
                              !.body.variableModes = Append(@, modeCreate),
                              !.report = addMode(@)],
                    collection, prefix, collectionId, i + 1)

RECURSIVE CreateModesOfItself(_, _, _, _, _)
\* faulty variant: a mode-create op names its own id as its collection
CreateModesOfItself(s, collection, prefix, collectionId, i) ==
    IF i > Len(collection.modes) THEN s
    ELSE LET modeName == collection.modes[i] IN
         IF modeName = collection.defaultMode
         THEN CreateModesOfItself(s, collection, prefix, collectionId, i + 1)
         ELSE LET g == generateTempId(prefix \o <<"_","m","o","d","e">>, s.counter)
                  modeCreate == [action |-> "CREATE", id |-> g.id, name |-> modeName,
                                 variableCollectionId |-> g.id]
              IN  CreateModesOfItself(
                    [s EXCEPT !.counter = g.counter,
                              !.modeIds = (modeName :> g.id) @@ @,
                              !.body.variableModes = Append(@, modeCreate),
                              !.report = addMode(@)],
                    collection, prefix, collectionId, i + 1)

RECURSIVE CreateModes(_, _, _, _, _)
\* lines 307-321: a mode-create op for every mode from index i on that is not
\* the default mode; s carries counter, body, report and collectionModeIds
CreateModes(s, collection, prefix, collectionId, i) ==
    IF i > Len(collection.modes) THEN s
    ELSE LET modeName == collection.modes[i] IN
         IF modeName = collection.defaultMode
         THEN CreateModes(s, collection, prefix, collectionId, i + 1)
         ELSE LET g == generateTempId(prefix \o <<"_","m","o","d","e">>, s.counter)
                  modeCreate == [action |-> "CREATE", id |-> g.id, name |-> modeName,
                                 variableCollectionId |-> collectionId]
              IN  CreateModes(
                    [s EXCEPT !.counter = g.counter,
                              !.modeIds = (modeName :> g.id) @@ @,
                              !.body.variableModes = Append(@, modeCreate),
                              !.report = addMode(@)],
                    collection, prefix, collectionId, i + 1)

RECURSIVE SetModeValues(_, _, _, _, _)
\* lines 374-408: a mode-value op for every mode from index i on whose tree
\* holds a token at path that converts to a value
SetModeValues(s, collection, path, variableId, i) ==
    IF i > Len(collection.modes) THEN s
    ELSE LET modeName == collection.modes[i]
             modeTokens == ModeTree(collection, modeName)
             modeToken == IF modeTokens.kind = "undefined" THEN UndefinedNode
                          ELSE Navigate(modeTokens, path)
         IN  IF modeToken.kind = "undefined" \/ modeName \notin DOMAIN s.modeIds
             THEN SetModeValues(s, collection, path, variableId, i + 1)
             ELSE LET conv1 == tokenValueToFigma(
                                 modeToken, s.report,
                                 collection.name \o Dot \o modeName \o Dot \o Join(path, Dot))
                      s1 == [s EXCEPT !.report = conv1.report]
                  IN  IF conv1.value = Null
                      THEN SetModeValues(s1, collection, path, variableId, i + 1)
                      ELSE SetModeValues(
                             [s1 EXCEPT
                                !.body.variableModeValues =
                                    Append(@, [variableId |-> variableId,
                                               modeId |-> s.modeIds[modeName],
                                               value |-> conv1.value]),
                                !.report = addValue(@)],
                             collection, path, variableId, i + 1)

RECURSIVE CreateVariablesHiddenFirst(_, _, _, _, _, _, _)
\* faulty variant: the hidden flag is looked at before the type
CreateVariablesHiddenFirst(s, collection, opts, prefix, collectionId, flattenedTokens, i) ==
    IF i > Len(flattenedTokens) THEN s
    ELSE LET path == flattenedTokens[i].path
             token == flattenedTokens[i].token
             figmaType == TOKEN_TYPE_TO_FIGMA(token.type)
         IN  IF opts.skipHidden /\ token.hidden
             THEN CreateVariablesHiddenFirst(s, collection, opts, prefix, collectionId,
                                             flattenedTokens, i + 1)
             ELSE IF IsSkipType(token.type)
             THEN CreateVariablesHiddenFirst(
                    [s EXCEPT !.report =
                        addSkipped(@, Join(path, Dot), "not supported as a Figma variable",
                                   token.type,
                                   "Consider using Figma Styles API for composite types")],
                    collection, opts, prefix, collectionId, flattenedTokens, i + 1)
             ELSE IF figmaType = Undefined
             THEN CreateVariablesHiddenFirst(
                    [s EXCEPT !.report =
                        addSkipped(@, Join(path, Dot), "Unknown token type",
                                   token.type, Undefined)],
                    collection, opts, prefix, collectionId, flattenedTokens, i + 1)
             ELSE IF opts.skipHidden /\ token.hidden
             THEN CreateVariablesHiddenFirst(s, collection, opts, prefix, collectionId,
                                  flattenedTokens, i + 1)
             ELSE LET variableName == Join(path, Slash)
                      g == generateTempId(prefix \o <<"_","v","a","r">>, s.counter)
                      variableCreate == [action |-> "CREATE", id |-> g.id,
                                         name |-> variableName,
                                         variableCollectionId |-> collectionId,
                                         resolvedType |-> figmaType,
                                         description |-> token.description]
                      s1 == [s EXCEPT !.counter = g.counter,
                                      !.body.variables = Append(@, variableCreate),
                                      !.report = addVariable(@)]
                  IN  CreateVariablesHiddenFirst(
                        SetModeValues(s1, collection, path, g.id, 1),
                        collection, opts, prefix, collectionId, flattenedTokens, i + 1)

RECURSIVE CreateVariables(_, _, _, _, _, _, _)
\* lines 330-409: the loop over the flattened default-mode tokens from index i on
CreateVariables(s, collection, opts, prefix, collectionId, flattenedTokens, i) ==
    IF i > Len(flattenedTokens) THEN s
    ELSE LET path == flattenedTokens[i].path
             token == flattenedTokens[i].token
             figmaType == TOKEN_TYPE_TO_FIGMA(token.type)
         IN  IF IsSkipType(token.type)
             THEN CreateVariables(
                    [s EXCEPT !.report =
                        addSkipped(@, Join(path, Dot), "not supported as a Figma variable",
                                   token.type,
                                   "Consider using Figma Styles API for composite types")],
                    collection, opts, prefix, collectionId, flattenedTokens, i + 1)
             ELSE IF figmaType = Undefined
             THEN CreateVariables(
                    [s EXCEPT !.report =
                        addSkipped(@, Join(path, Dot), "Unknown token type",
                                   token.type, Undefined)],
                    collection, opts, prefix, collectionId, flattenedTokens, i + 1)
             ELSE IF opts.skipHidden /\ token.hidden
             THEN CreateVariables(s, collection, opts, prefix, collectionId,
                                  flattenedTokens, i + 1)
             ELSE LET variableName == Join(path, Slash)
                      g == generateTempId(prefix \o <<"_","v","a","r">>, s.counter)
                      variableCreate == [action |-> "CREATE", id |-> g.id,
                                         name |-> variableName,
                                         variableCollectionId |-> collectionId,
                                         resolvedType |-> figmaType,
                                         description |-> token.description]
                      s1 == [s EXCEPT !.counter = g.counter,
                                      !.body.variables = Append(@, variableCreate),
                                      !.report = addVariable(@)]
                  IN  CreateVariables(
                        SetModeValues(s1, collection, path, g.id, 1),
                        collection, opts, prefix, collectionId, flattenedTokens, i + 1)

RECURSIVE ProcessCollections(_, _, _, _, _)
\* lines 284-410: the loop over theme.collections from index i on
ProcessCollections(s, th, opts, prefix, i) ==
    IF i > Len(th.collections) THEN s
    ELSE LET collection == th.collections[i]
             gc == generateTempId(prefix \o <<"_","c","o","l">>, s.counter)
             gm == generateTempId(prefix \o <<"_","m","o","d","e">>, gc.counter)
             collectionCreate == [action |-> "CREATE", id |-> gc.id,
                                  name |-> MappedName(opts, collection.name),
                                  initialModeId |-> gm.id]
             s1 == [s EXCEPT !.counter = gm.counter,
                             !.body.variableCollections = Append(@, collectionCreate),
                             !.report = addCollection(@),
                             !.modeIds = (collection.defaultMode :> gm.id)]
             s2 == CreateModes(s1, collection, prefix, gc.id, 1)
             defaultTokens == ModeTree(collection, collection.defaultMode)
         IN  IF defaultTokens.kind = "undefined"
             THEN ProcessCollections(s2, th, opts, prefix, i + 1)
             ELSE ProcessCollections(
                    CreateVariables(s2, collection, opts, prefix, gc.id,
                                    flattenTokens(defaultTokens, <<>>), 1),
                    th, opts, prefix, i + 1)

\* transformToFigmaVariables(theme, options) entered with the id counter at
\* counter: the request body, the report and the counter it leaves behind
transformToFigmaVariables(th, opts, counter) ==
    LET prefix == OrElse(opts.idPrefix, <<"t","e","m","p">>)
        report0 == setSourceCheck(NewReport, th.meta.figmaFileKey, opts.targetFileKey,
                                  Coalesce(opts.allowSourceOverwrite, "false") = "true")
        s0 == [counter |-> resetIdCounter(counter),
               body |-> [variableCollections |-> <<>>, variableModes |-> <<>>,
                         variables |-> <<>>, variableModeValues |-> <<>>],
               report |-> report0,
               modeIds |-> << >>]
        s == ProcessCollections(s0, th, opts, prefix, 1)
    IN  [requestBody |-> s.body, report |-> s.report, counter |-> s.counter]

-----------------------------------------------------------------------------
(* Composite styles: styles-transformer.ts *)

NoStyles == [raised |-> FALSE, textStyles |-> <<>>, effectStyles |-> <<>>,
             paintStyles |-> <<>>, styleCounts |-> [text |-> 0, effect |-> 0, paint |-> 0]]

\* report.addStyle(kind): the per-kind style counter of the report
addStyle(counts, kind) == [counts EXCEPT ![kind] = @ + 1]

\* typographyToTextStyle, shadowToEffectStyle, gradientToPaintStyle: the
\* descriptor carries the name and, when it is truthy, the description; the
\* fields computed from the composite value are left out
StyleOf(styleName, token) ==
    [action |-> "CREATE",
     style |-> [name |-> styleName,
                description |-> IF Truthy(token.description)
                                THEN token.description ELSE Undefined]]

\* the three converters read fields of fields of the value (fontFamily[0],
\* color.r, stops.map), which a value that is a reference does not hold
StyleValueRaises(token) == isTokenReference(token.value)

RECURSIVE traverseForStyles(_, _, _)
\* lines 306-378: depth-first over the entries of group; a style-create op
\* for a typography, a shadow and a gradient leaf, nothing for any other
\* leaf; a converter that raises ends the traversal
traverseForStyles(group, currentPath, s) ==
    IF group.entries = <<>> \/ s.raised THEN s
    ELSE LET e == Head(group.entries)
             rest == Group(Tail(group.entries))
             path == Append(currentPath, e.key)
             styleName == Join(path, Slash)
         IN  IF e.node.kind \in {"undefined", "string"} \/ StartsWithDollar(e.key)
             THEN traverseForStyles(rest, currentPath, s)
             ELSE IF e.node.kind = "token"
             THEN traverseForStyles(rest, currentPath,
                    IF e.node.type \in {"typography", "shadow", "gradient"}
                          /\ StyleValueRaises(e.node)
                    THEN [s EXCEPT !.raised = TRUE]
                    ELSE CASE e.node.type = "typography" ->
                                [s EXCEPT !.textStyles = Append(@, StyleOf(styleName, e.node)),
                                          !.styleCounts = addStyle(@, "text")]
                           [] e.node.type = "shadow" ->
                                [s EXCEPT !.effectStyles = Append(@, StyleOf(styleName, e.node)),
                                          !.styleCounts = addStyle(@, "effect")]
                           [] e.node.type = "gradient" ->
                                [s EXCEPT !.paintStyles = Append(@, StyleOf(styleName, e.node)),
                                          !.styleCounts = addStyle(@, "paint")]
                           [] OTHER -> s)
             ELSE traverseForStyles(rest, currentPath, traverseForStyles(e.node, path, s))

RECURSIVE StylesOfCollections(_, _, _)
\* lines 292-298: the default-mode tree of every collection from index i on
StylesOfCollections(th, i, s) ==
    IF i > Len(th.collections) \/ s.raised THEN s
    ELSE LET collection == th.collections[i]
             defaultTokens == ModeTree(collection, collection.defaultMode)
         IN  IF defaultTokens.kind = "undefined"
             THEN StylesOfCollections(th, i + 1, s)
             ELSE StylesOfCollections(th, i + 1, traverseForStyles(defaultTokens, <<>>, s))

\* extractStyleTokens(theme, report)
extractStyleTokens(th) == StylesOfCollections(th, 1, NoStyles)

-----------------------------------------------------------------------------
(* Read path: parser.ts *)

\* a character the regular expression \s matches
IsSpace(c) == c \in {" ", "\t", "\n"}

RECURSIVE Split(_, _)
\* String.prototype.split for a separator of one character
Split(str, sep) ==
    IF \A i \in 1..Len(str) : str[i] # sep THEN <<str>>
    ELSE LET k == CHOOSE i \in 1..Len(str) :
                    str[i] = sep /\ \A j \in 1..(i - 1) : str[j] # sep
         IN  <<SubSeq(str, 1, k - 1)>> \o Split(SubSeq(str, k + 1, Len(str)), sep)

RECURSIVE ReplaceWhitespace(_)
\* str.replace(/\s+/g, '-')
ReplaceWhitespace(str) ==
    IF str = <<>> THEN <<>>
    ELSE IF ~IsSpace(Head(str)) THEN <<Head(str)>> \o ReplaceWhitespace(Tail(str))
    ELSE LET rest == Tail(str)
             run == IF \A i \in 1..Len(rest) : IsSpace(rest[i]) THEN Len(rest)
                    ELSE (CHOOSE i \in 1..Len(rest) :
                            ~IsSpace(rest[i]) /\ \A j \in 1..(i - 1) : IsSpace(rest[j])) - 1
         IN  <<"-">> \o ReplaceWhitespace(SubSeq(rest, run + 1, Len(rest)))

\* segment.toLowerCase().replace(/\s+/g, '-')
Kebab(segment) == ReplaceWhitespace(toLowerCase(segment))

\* a VariableAlias value: { type: 'VARIABLE_ALIAS', id }
VariableAlias(id) == [t |-> "alias", id |-> id]

\* isVariableAlias(value)
isVariableAlias(value) == value.t = "alias"

\* isRGBA(value)
isRGBA(value) == value.t = "rgba"

\* a LocalVariable of the host file
LocalVariable(id, name, variableCollectionId, resolvedType, scopes, hidden, description, valuesByMode) ==
    [id |-> id, name |-> name, variableCollectionId |-> variableCollectionId,
     resolvedType |-> resolvedType, scopes |-> scopes,
     hiddenFromPublishing |-> hidden, description |-> description,
     valuesByMode |-> valuesByMode]

\* a LocalVariableCollection of the host file; modes are { modeId, name }
LocalVariableCollection(id, name, modes, defaultModeId, hidden) ==
    [id |-> id, name |-> name, modes |-> modes, defaultModeId |-> defaultModeId,
     hiddenFromPublishing |-> hidden]

\* the Map built by variablesById.set(variable.id, variable) over the
\* variables in order: the positions that hold id, the last one wins
PositionsOfId(variables, id) == { k \in 1..Len(variables) : variables[k].id = id }

convertFigmaNumber(value, scopes) ==
    LET dimensionScopes == {"CORNER_RADIUS", "WIDTH_HEIGHT", "GAP", "STROKE_FLOAT",
                            "FONT_SIZE", "LINE_HEIGHT", "LETTER_SPACING",
                            "PARAGRAPH_SPACING", "PARAGRAPH_INDENT"}
    IN  IF scopes \cap dimensionScopes # {}
        THEN UnitValue(value.n, "px")
        ELSE value

\* faulty variant: the segments keep their case
createTokenReferenceKeepsCase(alias, variables) ==
    LET found == PositionsOfId(variables, alias.id) IN
    IF found = {}
    THEN TokenReference(<<"{">> \o alias.id \o <<"}">>)
    ELSE LET referencedVar == variables[CHOOSE k \in found : \A h \in found : h <= k]
             segments == Split(referencedVar.name, "/")
             path == Join([k \in 1..Len(segments) |-> ReplaceWhitespace(segments[k])], Dot)
         IN  TokenReference(<<"{">> \o path \o <<"}">>)

\* createTokenReference(alias, variablesById), variablesById built from variables
createTokenReference(alias, variables) ==
    LET found == PositionsOfId(variables, alias.id) IN
    IF found = {}
    THEN TokenReference(<<"{">> \o alias.id \o <<"}">>)
    ELSE LET referencedVar == variables[CHOOSE k \in found : \A h \in found : h <= k]
             segments == Split(referencedVar.name, "/")
             path == Join([k \in 1..Len(segments) |-> Kebab(segments[k])], Dot)
         IN  TokenReference(<<"{">> \o path \o <<"}">>)

\* faulty variant: a dimension scope is looked for before FONT_WEIGHT
detectTokenTypeDimensionFirst(variable) ==
    CASE variable.resolvedType = "COLOR" -> "color"
      [] variable.resolvedType = "BOOLEAN" -> "boolean"
      [] variable.resolvedType = "STRING" ->
            IF "FONT_FAMILY" \in variable.scopes THEN "fontFamily" ELSE "string"
      [] variable.resolvedType = "FLOAT" ->
            IF variable.scopes \cap {"CORNER_RADIUS", "WIDTH_HEIGHT", "GAP",
                                     "FONT_SIZE", "LINE_HEIGHT", "LETTER_SPACING"} # {}
            THEN "dimension"
            ELSE IF "FONT_WEIGHT" \in variable.scopes THEN "fontWeight"
            ELSE "number"
      [] OTHER -> "string"

detectTokenType(variable) ==
    CASE variable.resolvedType = "COLOR" -> "color"
      [] variable.resolvedType = "BOOLEAN" -> "boolean"
      [] variable.resolvedType = "STRING" ->
            IF "FONT_FAMILY" \in variable.scopes THEN "fontFamily" ELSE "string"
      [] variable.resolvedType = "FLOAT" ->
            IF "FONT_WEIGHT" \in variable.scopes THEN "fontWeight"
            ELSE IF variable.scopes \cap {"CORNER_RADIUS", "WIDTH_HEIGHT", "GAP",
                                          "FONT_SIZE", "LINE_HEIGHT", "LETTER_SPACING"} # {}
            THEN "dimension"
            ELSE "number"
      [] OTHER -> "string"

\* createToken(variable, value, variablesById): the token with its com.figma
\* extensions (variableId, scopes, hiddenFromPublishing)
createToken(variable, value, variables) ==
    LET tokenType == detectTokenType(variable)
        description == IF variable.description = "" THEN Undefined
                       ELSE variable.description
        extensions == [variableId |-> variable.id, scopes |-> variable.scopes]
        tokenValue ==
            IF isVariableAlias(value) THEN createTokenReference(value, variables)
            ELSE IF isRGBA(value) THEN convertFigmaColor(value)
            ELSE IF value.t = "number" THEN convertFigmaNumber(value, variable.scopes)
            ELSE IF value.t = "string"
            THEN IF tokenType = "fontFamily" THEN ArrayValue(<<value.s>>) ELSE value
            ELSE value
    IN  Token(tokenType, tokenValue, description, variable.hiddenFromPublishing)
            @@ extensions

\* buildTokenPath(name)
buildTokenPath(name) ==
    LET segments == Split(name, "/")
        last == segments[Len(segments)]
        tokenName == IF last = <<>> THEN name ELSE last
        front == SubSeq(segments, 1, Len(segments) - 1)
    IN  [path |-> [k \in 1..Len(front) |-> Kebab(front[k])],
         tokenName |-> Kebab(tokenName)]


\* own keys a node holds besides its $-fields: the entries of a group, and
\* whatever was stored into a token object after its construction
NodeEntries(node) == IF "entries" \in DOMAIN node THEN node.entries ELSE << >>

\* segment in current, for keys that are neither $-fields nor inherited
In(segment, current) ==
    \E i \in 1..Len(NodeEntries(current)) : NodeEntries(current)[i].key = segment

\* current[key] = value: an existing key keeps its place, a new one goes last
SetOwn(current, key, value) ==
    LET entries == NodeEntries(current)
        stored == IF In(key, current)
                  THEN [i \in 1..Len(entries) |->
                            IF entries[i].key = key THEN Entry(key, value) ELSE entries[i]]
                  ELSE Append(entries, Entry(key, value))
    IN  [entries |-> stored] @@ current

RECURSIVE setTokenAtPath(_, _, _, _)
\* setTokenAtPath(group, path, tokenName, token): the group after the call
setTokenAtPath(group, path, tokenName, token) ==
    IF path = << >> THEN SetOwn(group, tokenName, token)
    ELSE LET segment == Head(path)
             current == IF ~In(segment, group) THEN SetOwn(group, segment, Group(<< >>))
                        ELSE group
             next == Child(current, segment)
         IN  SetOwn(current, segment, setTokenAtPath(next, Tail(path), tokenName, token))

RECURSIVE ModeTokens(_, _, _, _)
\* parseCollection, the loop over the variables for one mode: modeTokens after
\* the first k variables of the collection
ModeTokens(variables, k, modeId, allVariables) ==
    IF k = 0 THEN Group(<< >>)
    ELSE LET before == ModeTokens(variables, k - 1, modeId, allVariables)
             variable == variables[k]
         IN  IF modeId \notin DOMAIN variable.valuesByMode THEN before
             ELSE LET token == createToken(variable, variable.valuesByMode[modeId],
                                           allVariables)
                      at == buildTokenPath(variable.name)
                  IN  setTokenAtPath(before, at.path, at.tokenName, token)

RECURSIVE TokensByMode(_, _, _, _)
\* parseCollection, tokens[mode.name] = modeTokens for the first k modes
TokensByMode(collection, k, variables, allVariables) ==
    IF k = 0 THEN << >>
    ELSE LET mode == collection.modes[k]
         IN  (mode.name :> ModeTokens(variables, Len(variables), mode.modeId, allVariables))
                @@ TokensByMode(collection, k - 1, variables, allVariables)

\* parseCollection(collection, variables, variablesById)
parseCollection(collection, variables, allVariables) ==
    LET modes == [k \in 1..Len(collection.modes) |-> collection.modes[k].name]
        found == { k \in 1..Len(collection.modes) :
                        collection.modes[k].modeId = collection.defaultModeId }
        foundName == IF found = {} THEN Undefined
                     ELSE modes[CHOOSE k \in found : \A h \in found : k <= h]
        defaultMode == IF foundName # Undefined /\ foundName # << >> THEN foundName
                       ELSE IF modes # << >> THEN modes[1] ELSE Undefined
    IN  [name |-> collection.name,
         description |-> IF collection.hiddenFromPublishing THEN Undefined
                         ELSE <<"Figma collection: ">> \o collection.name,
         modes |-> modes,
         defaultMode |-> defaultMode,
         tokens |-> TokensByMode(collection, Len(collection.modes), variables, allVariables)]

RECURSIVE ParsedCollectionsKeepsHidden(_, _, _)
\* faulty variant: a hidden collection is parsed like any other
ParsedCollectionsKeepsHidden(variables, collections, k) ==
    IF k = 0 THEN << >>
    ELSE LET before == ParsedCollectionsKeepsHidden(variables, collections, k - 1)
             collection == collections[k]
             collectionVariables ==
                SelectSeq(variables, LAMBDA v : v.variableCollectionId = collection.id)
         IN  IF Len(collectionVariables) = 0 THEN before
             ELSE Append(before, parseCollection(collection, collectionVariables, variables))

RECURSIVE ParsedCollections(_, _, _)
\* parseVariables, the loop over the first k collections
ParsedCollections(variables, collections, k) ==
    IF k = 0 THEN << >>
    ELSE LET before == ParsedCollections(variables, collections, k - 1)
             collection == collections[k]
             collectionVariables ==
                SelectSeq(variables, LAMBDA v : v.variableCollectionId = collection.id)
         IN  IF Len(collectionVariables) = 0 THEN before
             ELSE IF collection.hiddenFromPublishing THEN before
             ELSE Append(before, parseCollection(collection, collectionVariables, variables))

\* parseVariables(variables, collections), both in the order of Object.values
parseVariables(variables, collections) ==
    ParsedCollections(variables, collections, Len(collections))

-----------------------------------------------------------------------------
(* Input adapter: adapters/figma/adapter.ts *)

\* an optional object that is not given
Absent == [t |-> "undefined"]

\* a Record<string, X> by its values in the order of Object.values
RecordOf(values) == [t |-> "object", values |-> values]

\* FigmaMCPDataResponse: { name, lastModified?, variables?, variableCollections? }
McpData(name, lastModified, variables, variableCollections) ==
    [t |-> "object", name |-> name, lastModified |-> lastModified,
     variables |-> variables, variableCollections |-> variableCollections]

\* GetLocalVariablesResponse: { error, meta?: { variables?, variableCollections? } }
VariablesResponse(error, meta) == [t |-> "object", error |-> error, meta |-> meta]
Meta(variables, variableCollections) ==
    [t |-> "object", variables |-> variables, variableCollections |-> variableCollections]

FigmaInput(mcpData, variablesResponse, fileKey) ==
    [mcpData |-> mcpData, variablesResponse |-> variablesResponse, fileKey |-> fileKey]

\* x?.field for an optional object x
Optional(x, field) == IF x = Absent THEN Absent ELSE x[field]

\* faulty variant: an input with no payload collects no error
validateAcceptsEmpty(source) ==
    LET named == IF source.mcpData # Absent /\ ~Truthy(source.mcpData.name)
                 THEN <<"MCP data missing file name">> ELSE << >>
        response == source.variablesResponse
        answered ==
            IF response = Absent THEN << >>
            ELSE (IF response.error THEN <<"Variables response contains error">> ELSE << >>)
                 \o (IF Optional(response.meta, "variables") = Absent
                     THEN <<"Variables response missing variables data">> ELSE << >>)
                 \o (IF Optional(response.meta, "variableCollections") = Absent
                     THEN <<"Variables response missing collections data">> ELSE << >>)
        errors == named \o answered
    IN  [valid |-> Len(errors) = 0,
         errors |-> IF Len(errors) > 0 THEN ArrayValue(errors) ELSE Absent]

\* FigmaAdapter.validate(source)
validate(source) ==
    LET given == IF source.mcpData = Absent /\ source.variablesResponse = Absent
                 THEN <<"Either mcpData or variablesResponse must be provided">>
                 ELSE << >>
        named == IF source.mcpData # Absent /\ ~Truthy(source.mcpData.name)
                 THEN <<"MCP data missing file name">> ELSE << >>
        response == source.variablesResponse
        answered ==
            IF response = Absent THEN << >>
            ELSE (IF response.error THEN <<"Variables response contains error">> ELSE << >>)
                 \o (IF Optional(response.meta, "variables") = Absent
                     THEN <<"Variables response missing variables data">> ELSE << >>)
                 \o (IF Optional(response.meta, "variableCollections") = Absent
                     THEN <<"Variables response missing collections data">> ELSE << >>)
        errors == given \o named \o answered
    IN  [valid |-> Len(errors) = 0,
         errors |-> IF Len(errors) > 0 THEN ArrayValue(errors) ELSE Absent]

RECURSIVE JoinText(_, _)
\* errors.join(sep), the text kept as the sequence of its pieces
JoinText(parts, sep) ==
    IF parts = << >> THEN << >>
    ELSE IF Len(parts) = 1 THEN parts
    ELSE <<Head(parts), sep>> \o JoinText(Tail(parts), sep)

\* x || {} for an optional record of variables or collections
ValuesOrNone(x) == IF x = Absent THEN << >> ELSE x.values

\* FigmaAdapter.parse(source); now is what new Date().toISOString() returns
parse(source, now) ==
    LET validation == validate(source) IN
    IF ~validation.valid
    THEN [raised |-> TRUE,
          message |-> <<"Invalid Figma input", ": ">>
                        \o (IF validation.errors = Absent THEN <<"undefined">>
                            ELSE JoinText(validation.errors.items, ", "))]
    ELSE IF source.variablesResponse # Absent
    THEN [raised |-> FALSE,
          theme |-> [name |-> "Untitled",
                     collections |->
                        parseVariables(source.variablesResponse.meta.variables.values,
                                       source.variablesResponse.meta.variableCollections.values),
                     meta |-> [source |-> "figma-api", figmaFileKey |-> source.fileKey,
                               lastSynced |-> now]]]
    ELSE IF source.mcpData # Absent
    THEN [raised |-> FALSE,
          theme |-> [name |-> source.mcpData.name,
                     collections |->
                        parseVariables(ValuesOrNone(source.mcpData.variables),
                                       ValuesOrNone(source.mcpData.variableCollections)),
                     meta |-> [source |-> "figma-mcp", figmaFileKey |-> source.fileKey,
                               lastSynced |-> IF Truthy(source.mcpData.lastModified)
                                              THEN source.mcpData.lastModified
                                              ELSE now]]]
    ELSE [raised |-> TRUE, message |-> <<"No valid data source">>]

-----------------------------------------------------------------------------
(* Source safety: safety.ts *)

\* faulty variant: permission is taken as given unless it is explicitly refused
checkSourceSafetyPermissive(th, opts) ==
    LET sourceFileKey == th.meta.figmaFileKey
        targetFileKey == opts.targetFileKey
        allowOverwrite == Coalesce(opts.allowSourceOverwrite, "true") = "true"
        res == [sourceFileKey |-> sourceFileKey, targetFileKey |-> targetFileKey,
                isSameFile |-> FALSE, overwriteAllowed |-> allowOverwrite]
    IN  IF ~Truthy(sourceFileKey) \/ ~Truthy(targetFileKey)
        THEN [raised |-> FALSE, value |-> res]
        ELSE IF sourceFileKey = targetFileKey /\ ~allowOverwrite
        THEN [raised |-> TRUE,
              error |-> [name |-> "SourceOverwriteError",
                         sourceFileKey |-> sourceFileKey,
                         targetFileKey |-> targetFileKey]]
        ELSE [raised |-> FALSE,
              value |-> [res EXCEPT !.isSameFile = (sourceFileKey = targetFileKey)]]

\* checkSourceSafety(theme, options): the SourceCheckResult it returns, or the
\* SourceOverwriteError it throws
checkSourceSafety(th, opts) ==
    LET sourceFileKey == th.meta.figmaFileKey
        targetFileKey == opts.targetFileKey
        allowOverwrite == Coalesce(opts.allowSourceOverwrite, "false") = "true"
        res == [sourceFileKey |-> sourceFileKey, targetFileKey |-> targetFileKey,
                isSameFile |-> FALSE, overwriteAllowed |-> allowOverwrite]
    IN  IF ~Truthy(sourceFileKey) \/ ~Truthy(targetFileKey)
        THEN [raised |-> FALSE, value |-> res]
        ELSE IF sourceFileKey = targetFileKey /\ ~allowOverwrite
        THEN [raised |-> TRUE,
              error |-> [name |-> "SourceOverwriteError",
                         sourceFileKey |-> sourceFileKey,
                         targetFileKey |-> targetFileKey]]
        ELSE [raised |-> FALSE,
              value |-> [res EXCEPT !.isSameFile = (sourceFileKey = targetFileKey)]]

-----------------------------------------------------------------------------
(* Output adapter: adapter.ts *)

\* faulty variant: the ops are built first and the gate is consulted afterwards
AdapterTransformResultLateGate(th, opts, counter) ==
    LET t == transformToFigmaVariables(th, opts, counter)
        check == checkSourceSafety(th, opts)
    IN  IF check.raised
        THEN [raised |-> TRUE, error |-> check.error, counter |-> t.counter]
        ELSE [raised |-> FALSE, requestBody |-> t.requestBody, report |-> t.report,
              counter |-> t.counter]

\* FigmaOutputAdapter.transform(theme, options) entered with the id counter at
\* counter: the rejection, or the result and the counter left behind
AdapterTransformResult(th, opts, counter) ==
    LET check == checkSourceSafety(th, opts) IN
    IF check.raised
    THEN [raised |-> TRUE, error |-> check.error, counter |-> counter]
    ELSE LET t == transformToFigmaVariables(th, opts, counter)
             report == IF t.report.sourceCheck.isSameFile
                          /\ t.report.sourceCheck.overwriteAllowed
                       THEN addWarning(t.report, "SOURCE_MATCH",
                                       "Target file matches source file", NoStr)
                       ELSE t.report
         IN  [raised |-> FALSE, requestBody |-> t.requestBody, report |-> report,
              counter |-> t.counter]

-----------------------------------------------------------------------------
(* Inputs: the tokens, collections, themes and options the calls are given *)

light == <<"l","i","g","h","t">>
dark == <<"d","a","r","k">>
dim == <<"d","i","m">>
keyA == <<"a">>
keyB == <<"b">>
keyG == <<"g">>
keyDescription == <<"$","d","e","s","c","r","i","p","t","i","o","n">>
inter == <<"I","n","t","e","r">>
sansSerif == <<"s","a","n","s","-","s","e","r","i","f">>
DigitChars == <<"1","2","3","4","5","6","7","8","9">>

\* the name of the i-th collection of a theme: collection names are unique
CollectionName(i) == <<"c", DigitChars[i]>>

Plain(type, value) == Token(type, value, Undefined, FALSE)
Hidden(token) == [token EXCEPT !.hidden = TRUE]

red == ColorValue(ColorSteps, 0, 0, ColorSteps)
blue == ColorValue(0, 0, ColorSteps, ColorSteps)
someRef == TokenReference(<<"{","c","o","l","o","r",".","r","e","d","}">>)

tokRed == Plain("color", red)
tokBlue == Token("color", blue, "Background color", FALSE)
tokPx == Plain("dimension", UnitValue(8, "px"))
tokRem == Plain("dimension", UnitValue(32, "rem"))

\* tokens of the types that map to a Figma variable type, with literal values
RepresentableTokens ==
    { tokRed, tokBlue, tokPx, tokRem,
      Plain("number", Num(100)),
      Plain("string", Str(<<"H","i">>)),
      Plain("boolean", Bool(TRUE)),
      Plain("fontFamily", ArrayValue(<<inter>>)),
      Plain("fontFamily", ArrayValue(<<inter, sansSerif>>)),
      Plain("fontFamily", ArrayValue(<< >>)),
      Plain("fontWeight", Str(<<"b","o","l","d">>)),
      Plain("fontWeight", Num(700)),
      Plain("fontWeight", Str(<<"w","i","d","e">>)),
      Plain("duration", UnitValue(200, "ms")),
      Plain("duration", UnitValue(2, "s")) }

\* one token of each composite type of SKIP_TYPES
CompositeTokens == { Plain(SKIP_TYPES[i], CompositeValue) : i \in 1..Len(SKIP_TYPES) }

tokShadow == Plain("shadow", CompositeValue)

\* a token whose type tag has no mapping at all
tokUnknown == Plain("strokeStyle", CompositeValue)

\* tokens whose value is a reference
ReferenceTokens == { Plain("color", someRef), Plain("dimension", someRef),
                     Plain("shadow", someRef) }

tokRef == Plain("color", someRef)

HiddenTokens == { Hidden(tokRed), Hidden(tokRem), Hidden(tokShadow), Hidden(tokUnknown),
                  Hidden(tokRef), Hidden(Plain("fontFamily", ArrayValue(<<inter, sansSerif>>))) }

LeafTokens ==
    RepresentableTokens \cup CompositeTokens \cup {tokUnknown}
        \cup ReferenceTokens \cup HiddenTokens

\* { a: x }
TreeA(x) == Group(<<Entry(keyA, x)>>)

\* { g: { $description: "...", a: x }, b: y }
TreeNested(x, y) ==
    Group(<<Entry(keyG, Group(<<Entry(keyDescription, StringNode("group")),
                                Entry(keyA, x)>>)),
            Entry(keyB, y)>>)

EmptyTree == Group(<< >>)

Template(modes, defaultMode, tokens) ==
    [modes |-> modes, defaultMode |-> defaultMode, tokens |-> tokens]

\* collections with a single mode
SingleModeTemplates ==
    { Template(<<light>>, light, (light :> TreeA(x))) : x \in LeafTokens }
      \cup { Template(<<light>>, light, (light :> TreeNested(x, tokBlue)))
                : x \in {tokRed, tokRem, tokShadow, tokUnknown, tokRef, Hidden(tokRem)} }
      \cup { Template(<<light>>, light, (light :> EmptyTree)),
             Template(<<light>>, light, << >>) }

\* what the default mode and the other mode hold at path a; UndefinedNode for
\* a path the mode's tree does not hold
ModePairs ==
    { <<tokRed, tokBlue>>, <<tokRed, UndefinedNode>>, <<UndefinedNode, tokRed>>,
      <<tokRed, tokRef>>, <<tokRef, tokRed>>, <<tokRef, tokRef>>,
      <<tokRed, tokShadow>>, <<tokShadow, tokRed>>, <<tokRed, tokUnknown>>,
      <<tokPx, tokRem>>, <<tokRem, tokPx>>, <<tokRem, tokRem>>,
      <<UndefinedNode, tokRem>>, <<tokShadow, tokRem>>, <<tokRed, tokRem>>,
      <<Hidden(tokRem), Hidden(tokRem)>>, <<tokRed, TreeA(tokRed)>>,
      <<Plain("fontFamily", ArrayValue(<<inter, sansSerif>>)),
        Plain("fontFamily", ArrayValue(<<inter>>))>> }

TreeOf(x) == IF x.kind = "undefined" THEN EmptyTree ELSE TreeA(x)

\* collections with two modes, either of them the default mode
TwoModeTemplates ==
    { Template(<<light, dark>>, light, (light :> TreeOf(p[1])) @@ (dark :> TreeOf(p[2])))
        : p \in ModePairs }
      \cup { Template(<<light, dark>>, dark, (dark :> TreeOf(p[1])) @@ (light :> TreeOf(p[2])))
        : p \in ModePairs }
      \cup { Template(<<light, dark>>, light, (light :> TreeA(tokRed))),
             Template(<<light, dark>>, dark, (light :> TreeA(tokRed))) }

\* collections with three modes, the default mode in the middle
ThreeModeTemplates ==
    { Template(<<light, dark, dim>>, dark,
               (light :> TreeA(tokRed)) @@ (dark :> TreeA(tokBlue)) @@ (dim :> TreeA(x)))
        : x \in {tokRed, tokRem} }

FocusTemplates == SingleModeTemplates \cup TwoModeTemplates \cup ThreeModeTemplates

\* the collection that stands next to the one under study
FillerTemplates ==
    { Template(<<light, dark>>, dark,
               (light :> Group(<<Entry(keyA, tokShadow), Entry(keyB, tokRem)>>))
                 @@ (dark :> Group(<<Entry(keyA, tokShadow), Entry(keyB, tokRem)>>))) }

Named(tpl, i) ==
    [name |-> CollectionName(i), modes |-> tpl.modes,
     defaultMode |-> tpl.defaultMode, tokens |-> tpl.tokens]

\* lists of at most MaxCollections collections: one collection of focus at any
\* place among filler collections, and the empty list
CollectionLists(focus) ==
    { << >> } \cup
    UNION { UNION { { [i \in 1..n |-> Named(IF i = pos THEN u ELSE f[i], i)]
                        : u \in focus, f \in [1..n -> FillerTemplates] }
                    : pos \in 1..n }
            : n \in 1..MaxCollections }

ThemeFile(collections, figmaFileKey) ==
    [name |-> "Test Theme", collections |-> collections,
     meta |-> [figmaFileKey |-> figmaFileKey]]

Options(targetFileKey, allowSourceOverwrite, skipHidden, idPrefix, collectionMapping) ==
    [targetFileKey |-> targetFileKey, allowSourceOverwrite |-> allowSourceOverwrite,
     skipHidden |-> skipHidden, idPrefix |-> idPrefix,
     collectionMapping |-> collectionMapping]

FileKeys == {Undefined, "", "fileA", "fileB"}
OptionalBooleans == {Undefined, "true", "false"}

NoMapping == << >>
testPrefix == <<"t","e","s","t">>
DesignMapping == (CollectionName(1) :> <<"D","e","s","i","g","n">>)

\* the options of the write path: source key of the theme, then the options
WriteCases ==
    { <<Undefined, Options(Undefined, Undefined, FALSE, NoStr, NoMapping)>>,
      <<"fileA", Options("fileA", "true", TRUE, testPrefix, DesignMapping)>>,
      <<"fileA", Options("fileB", Undefined, TRUE, NoStr, NoMapping)>> }

-----------------------------------------------------------------------------
(* State machine: the calls a client makes on one theme with one set of options *)

NoResult == [kind |-> "none", raised |-> FALSE]
NoBody == [kind |-> "none"]
NoConv == [fn |-> "none"]

\* the request body the latest call yielded, NoBody when it yielded none
YieldedBody(r) ==
    IF r.kind \in {"transform", "adapter"} /\ ~r.raised
    THEN [kind |-> "body", body |-> r.requestBody]
    ELSE NoBody

\* the callers that share the module, and so its id counter
Callers == {1, 2}

\* a caller that has no call under way
IdleCall == [pc |-> "idle"]

NoCalls == [p \in Callers |-> IdleCall]

Start ==
    /\ calls = NoCalls
    /\ idCounter = 0
    /\ result = NoResult
    /\ prevBody = NoBody
    /\ resetSince = FALSE
    /\ conv = NoConv
    /\ builder = NewReport

\* themes of every shape of collection, under the options of the write path
Init ==
    /\ \E c \in CollectionLists(FocusTemplates), w \in WriteCases :
          /\ theme = ThemeFile(c, w[1])
          /\ options = w[2]
    /\ Start

\* resetIdCounter()
ResetIdCounter ==
    /\ idCounter' = resetIdCounter(idCounter)
    /\ resetSince' = TRUE
    /\ UNCHANGED <<theme, options, result, prevBody, conv, builder, calls>>

\* checkSourceSafety(theme, options)
CheckSourceSafety ==
    /\ result' = [kind |-> "check", raised |-> checkSourceSafety(theme, options).raised,
                  outcome |-> checkSourceSafety(theme, options)]
    /\ prevBody' = YieldedBody(result)
    /\ UNCHANGED <<theme, options, idCounter, resetSince, conv, builder, calls>>

\* transformToFigmaVariables(theme, options)
TransformToFigmaVariables ==
    LET t == transformToFigmaVariables(theme, options, idCounter) IN
    /\ result' = [kind |-> "transform", raised |-> FALSE, afterReset |-> resetSince,
                  requestBody |-> t.requestBody, report |-> t.report]
    /\ idCounter' = t.counter
    /\ prevBody' = YieldedBody(result)
    /\ resetSince' = FALSE
    /\ UNCHANGED <<theme, options, conv, builder, calls>>

\* await new FigmaOutputAdapter().transform(theme, options)
AdapterTransform ==
    LET t == AdapterTransformResult(theme, options, idCounter) IN
    /\ result' = IF t.raised
                 THEN [kind |-> "adapter", raised |-> TRUE, afterReset |-> resetSince,
                       error |-> t.error]
                 ELSE [kind |-> "adapter", raised |-> FALSE, afterReset |-> resetSince,
                       requestBody |-> t.requestBody, report |-> t.report]
    /\ idCounter' = t.counter
    /\ prevBody' = YieldedBody(result)
    /\ resetSince' = FALSE
    /\ UNCHANGED <<theme, options, conv, builder, calls>>

\* extractStyleTokens(theme, createReport())
ExtractStyleTokens ==
    /\ conv' = [fn |-> "extractStyleTokens", out |-> extractStyleTokens(theme)]
    /\ UNCHANGED <<theme, options, idCounter, result, prevBody, resetSince, builder, calls>>

Next ==
    \/ ResetIdCounter
    \/ TransformToFigmaVariables
    \/ AdapterTransform
    \/ ExtractStyleTokens

Spec == Init /\ [][Next]_vars

\* every pairing of a source key with a target key and an overwrite flag
InitSafety ==
    /\ \E c \in CollectionLists(FillerTemplates), s \in FileKeys, t \in FileKeys,
          a \in OptionalBooleans :
          /\ theme = ThemeFile(c, s)
          /\ options = Options(t, a, FALSE, NoStr, NoMapping)
    /\ Start

NextSafety ==
    \/ CheckSourceSafety
    \/ Next

SpecSafety == InitSafety /\ [][NextSafety]_vars

-----------------------------------------------------------------------------
(* The value converters applied to inputs of their own *)

\* RGBA values with every channel in [0,1], in steps of 1/ColorSteps
RGBAValues ==
    { ColorValue(r, g, b, a) : r \in 0..ColorSteps, g \in 0..ColorSteps,
                               b \in 0..ColorSteps, a \in 0..ColorSteps }

FontWeightInputs ==
    { Num(100), Num(400), Num(450), Num(700),
      Str(<<"t","h","i","n">>), Str(<<"b","o","l","d">>), Str(<<"B","o","l","d">>),
      Str(<<"B","O","L","D">>), Str(<<"b","l","a","c","k">>), Str(<<"B","l","a","c","k">>),
      Str(<<"s","e","m","i","b","o","l","d">>), Str(<<"w","i","d","e">>),
      Str(<<"7","0","0">>), Str(<< >>), Str(<<"b","o","l","d"," ">>),
      Str(<<"c","o","n","s","t","r","u","c","t","o","r">>),
      Str(<<"C","o","n","s","t","r","u","c","t","o","r">>),
      Str(<<"_","_","p","r","o","t","o","_","_">>),
      Str(<<"t","o","S","t","r","i","n","g">>) }

InitConv ==
    /\ theme = ThemeFile(<< >>, Undefined)
    /\ options = Options(Undefined, Undefined, FALSE, NoStr, NoMapping)
    /\ Start

\* fontWeightToNumber(w)
FontWeightToNumber ==
    /\ \E w \in FontWeightInputs :
          conv' = [fn |-> "fontWeightToNumber", in |-> w, out |-> fontWeightToNumber(w)]
    /\ UNCHANGED <<theme, options, idCounter, result, prevBody, resetSince, builder, calls>>

\* normalizeFontWeight(w)
NormalizeFontWeight ==
    /\ \E w \in FontWeightInputs :
          conv' = [fn |-> "normalizeFontWeight", in |-> w, out |-> normalizeFontWeight(w)]
    /\ UNCHANGED <<theme, options, idCounter, result, prevBody, resetSince, builder, calls>>

\* colorToFigmaRGBA(convertFigmaColor(c)): a colour read from Figma and written back
ColorRoundTrip ==
    /\ \E c \in RGBAValues :
          conv' = [fn |-> "colorRoundTrip", in |-> c,
                   out |-> colorToFigmaRGBA(convertFigmaColor(c))]
    /\ UNCHANGED <<theme, options, idCounter, result, prevBody, resetSince, builder, calls>>

NextConv ==
    \/ FontWeightToNumber
    \/ NormalizeFontWeight
    \/ ColorRoundTrip

SpecConv == InitConv /\ [][NextConv]_vars

-----------------------------------------------------------------------------
(* The read path applied to host files of its own *)

\* the largest number of scopes one variable carries
MaxScopes == 2

\* VariableScope values: the ones the parser looks at and some it does not
Scopes ==
    {"ALL_SCOPES", "FONT_FAMILY", "FONT_WEIGHT", "CORNER_RADIUS", "WIDTH_HEIGHT",
     "GAP", "FONT_SIZE", "LINE_HEIGHT", "LETTER_SPACING", "STROKE_FLOAT",
     "PARAGRAPH_SPACING", "OPACITY"}

ScopeSets == { sc \in SUBSET Scopes : Cardinality(sc) <= MaxScopes }

\* resolvedType of a variable; the last is a type the parser does not know
ResolvedTypes == {"COLOR", "BOOLEAN", "STRING", "FLOAT", "EXPRESSION"}

VariableId(i) == <<"V", DigitChars[i]>>
ModeId(i) == <<"M", DigitChars[i]>>
CollectionId(i) == <<"K", DigitChars[i]>>

\* names of variables: upper case, blanks, runs of white space, several
\* segments, empty segments
VariableNames ==
    { <<"C","o","/","P"," ","5">>, <<"a"," "," ","\t","B">>, <<"A">>, <<"a">>,
      <<"a","/","b">>, <<" ","a","/","B"," ">>, <<"x","/","Y","/","z"," ","Z">>,
      <<"a"," ","/"," ","b">>, <<"a","/">>, << >>, <<"s","/","0",".","5">> }

\* one value of every kind a variable holds in a mode
ModeValues ==
    { VariableAlias(VariableId(1)), VariableAlias(VariableId(9)),
      red, Num(8), Str(inter), Bool(TRUE) }

\* the variable whose value is converted: every type, some sets of scopes
SubjectScopes ==
    { {}, {"ALL_SCOPES"}, {"FONT_FAMILY"}, {"FONT_WEIGHT"}, {"GAP"}, {"STROKE_FLOAT"},
      {"FONT_WEIGHT", "GAP"}, {"PARAGRAPH_SPACING"} }

Subject(resolvedType, scopes, value) ==
    LocalVariable(VariableId(2), <<"s">>, CollectionId(1), resolvedType, scopes, FALSE,
                  "", ModeId(1) :> value)

\* the variable an alias may name
Referenced(name) ==
    LocalVariable(VariableId(1), name, CollectionId(1), "COLOR", {}, FALSE,
                  "", ModeId(1) :> red)

\* the largest number of collections of a host file
MaxHostCollections == 2

HostMode(i, name) == [modeId |-> ModeId(i), name |-> name]

\* the modes of a host collection; a mode may carry the empty name
ModeLists ==
    { <<HostMode(1, light)>>,
      <<HostMode(1, light), HostMode(2, dark)>>,
      <<HostMode(1, light), HostMode(2, << >>)>>,
      <<HostMode(1, << >>), HostMode(2, dark)>> }

\* defaultModeId: the first mode, the second, a mode the collection lacks
DefaultModeIds == { ModeId(1), ModeId(2), ModeId(9) }

\* the names of the variables of one collection, in the order of the file:
\* none, one, two side by side, a leaf and a variable below it in both orders
NameLists ==
    { << >>, << <<"a">> >>, << <<"A","/","B">>, <<"a","/","c">> >>,
      << <<"a">>, <<"a","/","b">> >>, << <<"a","/","b">>, <<"a">> >>,
      << <<"a","/","b">>, <<"a","/","b","/","c">> >> }

\* the k-th variable of a collection holds a colour in every mode when k is
\* odd and in the first mode only when k is even
VariablesNamed(names, collection, base) ==
    [k \in 1..Len(names) |->
        LocalVariable(VariableId(base + k), names[k], CollectionId(collection),
                      "COLOR", {"ALL_SCOPES"}, FALSE, "",
                      IF k % 2 = 1 THEN (ModeId(1) :> red) @@ (ModeId(2) :> blue)
                      ELSE (ModeId(1) :> red))]

HostCollection(i, modes, defaultModeId, hidden) ==
    LocalVariableCollection(CollectionId(i), CollectionName(i), modes, defaultModeId, hidden)

HostFile(variables, collections) == [variables |-> variables, collections |-> collections]

\* a collection is hidden or not, and owns a variable or none
CollectionKinds == [hidden : BOOLEAN, owns : BOOLEAN]

RECURSIVE OwnedVariables(_, _)
\* the variables of the first k collections of the given kinds
OwnedVariables(kinds, k) ==
    IF k = 0 THEN << >>
    ELSE OwnedVariables(kinds, k - 1) \o
         (IF kinds[k].owns THEN VariablesNamed(<< <<"a">> >>, k, k - 1) ELSE << >>)

\* host files of up to MaxHostCollections collections of every kind
FilesOfKinds ==
    { HostFile(OwnedVariables(kinds, Len(kinds)),
               [i \in 1..Len(kinds) |->
                    HostCollection(i, <<HostMode(1, light), HostMode(2, dark)>>,
                                   ModeId(1), kinds[i].hidden)]) :
        kinds \in UNION { [1..n -> CollectionKinds] : n \in 0..MaxHostCollections } }

\* host files of one collection with every mode list, default and name list
FilesOfOne ==
    { HostFile(VariablesNamed(names, 1, 0), <<HostCollection(1, modes, d, FALSE)>>) :
        names \in NameLists, modes \in ModeLists, d \in DefaultModeIds }

\* host files of one collection whose two modes carry the same name; the
\* variable holds red in the first mode and blue in the second
FilesOfTwins ==
    { HostFile(VariablesNamed(<< <<"a">> >>, 1, 0),
               <<HostCollection(1, <<HostMode(1, light), HostMode(2, light)>>, d, FALSE)>>) :
        d \in DefaultModeIds }

HostFiles == FilesOfKinds \cup FilesOfOne \cup FilesOfTwins

InitRead ==
    /\ theme = ThemeFile(<< >>, Undefined)
    /\ options = Options(Undefined, Undefined, FALSE, NoStr, NoMapping)
    /\ Start

\* detectTokenType(variable)
DetectTokenType ==
    /\ \E rt \in ResolvedTypes, sc \in ScopeSets :
          LET variable == Subject(rt, sc, Num(8))
          IN  conv' = [fn |-> "detectTokenType", in |-> variable,
                       out |-> detectTokenType(variable)]
    /\ UNCHANGED <<theme, options, idCounter, result, prevBody, resetSince, builder, calls>>

\* createToken(variable, value, variablesById) for a value of the variable
CreateToken ==
    /\ \E rt \in ResolvedTypes, sc \in SubjectScopes, value \in ModeValues,
          name \in VariableNames :
          /\ isVariableAlias(value) => sc = {}
          /\ ~isVariableAlias(value) => name = <<"A">>
          /\ LET variable == Subject(rt, sc, value)
                 variables == <<Referenced(name), variable>>
             IN  conv' = [fn |-> "createToken",
                          in |-> [variable |-> variable, value |-> value,
                                  variables |-> variables],
                          out |-> createToken(variable, value, variables)]
    /\ UNCHANGED <<theme, options, idCounter, result, prevBody, resetSince, builder, calls>>

\* parseVariables(variables, collections)
ParseVariables ==
    /\ \E file \in HostFiles :
          conv' = [fn |-> "parseVariables", in |-> file,
                   out |-> parseVariables(file.variables, file.collections)]
    /\ UNCHANGED <<theme, options, idCounter, result, prevBody, resetSince, builder, calls>>

\* the host file a payload carries: two visible collections, one of them
\* with a variable
PayloadFile ==
    HostFile(OwnedVariables(<<[hidden |-> FALSE, owns |-> TRUE],
                              [hidden |-> FALSE, owns |-> FALSE]>>, 2),
             [i \in 1..2 |-> HostCollection(i, <<HostMode(1, light), HostMode(2, dark)>>,
                                            ModeId(1), FALSE)])

\* mcpData: not given, or given with or without a file name, a date of the
\* last change, variables and collections
McpPayloads ==
    { Absent } \cup
    { McpData(name, rest[1], rest[2], RecordOf(PayloadFile.collections)) :
        name \in {Undefined, "", "My File"},
        rest \in { <<Undefined, Absent>>,
                   <<"2024-01-01", RecordOf(PayloadFile.variables)>> } }

\* variablesResponse: not given, or given with or without an error, a meta
\* object, variables and collections
ResponsePayloads ==
    { Absent } \cup
    { VariablesResponse(error, meta) :
        error \in BOOLEAN,
        meta \in { Absent,
                   Meta(Absent, RecordOf(PayloadFile.collections)),
                   Meta(RecordOf(PayloadFile.variables), Absent),
                   Meta(RecordOf(PayloadFile.variables),
                        RecordOf(PayloadFile.collections)) } }

FigmaInputs ==
    { FigmaInput(m, r, k) : m \in McpPayloads, r \in ResponsePayloads,
                            k \in {Undefined, "fileA"} }

\* what new Date().toISOString() may return
Clock == {"2026-01-01", "2026-01-02"}

\* await new FigmaAdapter().validate(source)
Validate ==
    /\ \E source \in FigmaInputs :
          conv' = [fn |-> "validate", in |-> source, out |-> validate(source)]
    /\ UNCHANGED <<theme, options, idCounter, result, prevBody, resetSince, builder, calls>>

\* await new FigmaAdapter().parse(source)
Parse ==
    /\ \E source \in FigmaInputs, now \in Clock :
          conv' = [fn |-> "parse", in |-> source, out |-> parse(source, now)]
    /\ UNCHANGED <<theme, options, idCounter, result, prevBody, resetSince, builder, calls>>

NextRead ==
    \/ DetectTokenType
    \/ CreateToken
    \/ ParseVariables
    \/ Validate
    \/ Parse

SpecRead == InitRead /\ [][NextRead]_vars

-----------------------------------------------------------------------------
(* A report builder of the client's own, next to the calls of the write path *)

\* the client calls at most this many counting operations on its builder
MaxReportOps == 2

\* the operations the builder has counted
Counted(report) ==
    report.stats.collectionsCreated + report.stats.modesCreated
        + report.stats.variablesCreated + report.stats.valuesSet
        + report.stats.skipped + report.stats.warnings

InitReport ==
    /\ \E c \in CollectionLists(FillerTemplates), w \in WriteCases :
          /\ theme = ThemeFile(c, w[1])
          /\ options = w[2]
    /\ Start

\* report.addCollection()
AddCollection ==
    /\ Counted(builder) < MaxReportOps
    /\ builder' = addCollection(builder)
    /\ UNCHANGED <<theme, options, idCounter, result, prevBody, resetSince, conv, calls>>

\* report.addMode()
AddMode ==
    /\ Counted(builder) < MaxReportOps
    /\ builder' = addMode(builder)
    /\ UNCHANGED <<theme, options, idCounter, result, prevBody, resetSince, conv, calls>>

\* report.addVariable()
AddVariable ==
    /\ Counted(builder) < MaxReportOps
    /\ builder' = addVariable(builder)
    /\ UNCHANGED <<theme, options, idCounter, result, prevBody, resetSince, conv, calls>>

\* report.addValue()
AddValue ==
    /\ Counted(builder) < MaxReportOps
    /\ builder' = addValue(builder)
    /\ UNCHANGED <<theme, options, idCounter, result, prevBody, resetSince, conv, calls>>

\* report.addSkipped(path, reason, originalType, suggestion?)
AddSkipped ==
    /\ Counted(builder) < MaxReportOps
    /\ \E suggestion \in {Undefined, "Use styles instead"} :
          builder' = addSkipped(builder, <<"p">>, "Not supported", "shadow", suggestion)
    /\ UNCHANGED <<theme, options, idCounter, result, prevBody, resetSince, conv, calls>>

\* report.addWarning(code, message, path?)
AddWarning ==
    /\ Counted(builder) < MaxReportOps
    /\ \E path \in {Undefined, "spacing/large"} :
          builder' = addWarning(builder, "UNIT_DISCARDED", "rem", path)
    /\ UNCHANGED <<theme, options, idCounter, result, prevBody, resetSince, conv, calls>>

\* report.setSourceCheck(sourceFileKey, targetFileKey, overwriteAllowed)
SetSourceCheck ==
    /\ \E c \in { <<Undefined, "fileA", FALSE>>, <<"fileA", "fileA", TRUE>>,
                   <<"fileA", "fileB", FALSE>> } :
          builder' = setSourceCheck(builder, c[1], c[2], c[3])
    /\ UNCHANGED <<theme, options, idCounter, result, prevBody, resetSince, conv, calls>>

NextReport ==
    \/ AddCollection
    \/ AddMode
    \/ AddVariable
    \/ AddValue
    \/ AddSkipped
    \/ AddWarning
    \/ SetSourceCheck
    \/ TransformToFigmaVariables
    \/ AdapterTransform

SpecReport == InitReport /\ [][NextReport]_vars

-----------------------------------------------------------------------------
(* Properties: source safety *)

\* an optional file id is present when it is defined and not the empty string
Present(key) == key # Undefined /\ key # ""

SourceKey == theme.meta.figmaFileKey
TargetKey == options.targetFileKey
PermissionGiven == options.allowSourceOverwrite = "true"

\* C1: checkSourceSafety raises SourceOverwriteError exactly when the theme's
\* recorded origin file id and the requested target id are both present and
\* equal and allowSourceOverwrite is not true; the error carries both ids.
\* When it returns, the result carries both ids and the permission, isSameFile
\* says whether two present ids are equal, and an absent id gives an
\* inconclusive check that passes with isSameFile false.
C1_RaisesIffSameFileUnpermitted ==
    result.kind = "check" =>
        LET o == result.outcome IN
        /\ o.raised <=> (Present(SourceKey) /\ Present(TargetKey)
                          /\ SourceKey = TargetKey /\ ~PermissionGiven)
        /\ o.raised =>
              o.error = [name |-> "SourceOverwriteError",
                         sourceFileKey |-> SourceKey, targetFileKey |-> TargetKey]
        /\ ~o.raised =>
              o.value = [sourceFileKey |-> SourceKey, targetFileKey |-> TargetKey,
                         isSameFile |-> Present(SourceKey) /\ Present(TargetKey)
                                        /\ SourceKey = TargetKey,
                         overwriteAllowed |-> PermissionGiven]

\* the check raised on a theme written back to the file it came from
C1_Witness ==
    /\ result.kind = "check"
    /\ result.outcome.raised
    /\ SourceKey = "fileA" /\ TargetKey = "fileA"
    /\ options.allowSourceOverwrite = Undefined

\* C2: a transform call of the adapter on a theme whose recorded origin file
\* id equals the requested target id, without overwrite permission, fails as a
\* whole: it yields no request body and no report, and it has generated no id,
\* so no op was constructed before the gate raised.
C2_GateAbortsBeforeAnyOp ==
    [][ (AdapterTransform /\ Present(SourceKey) /\ SourceKey = TargetKey
            /\ ~PermissionGiven)
        => /\ result'.kind = "adapter"
           /\ result'.raised
           /\ result'.error.name = "SourceOverwriteError"
           /\ "requestBody" \notin DOMAIN result'
           /\ "report" \notin DOMAIN result'
           /\ idCounter' = idCounter ]_vars

\* the adapter rejected a call made right after resetIdCounter(), on a theme
\* that holds collections
C2_Witness ==
    /\ result.kind = "adapter"
    /\ result.raised
    /\ result.afterReset
    /\ idCounter = 0
    /\ Len(theme.collections) > 0

-----------------------------------------------------------------------------
(* Properties: determinism *)

\* C3: two consecutive transforms of the same theme with the same options, the
\* id counter reset before the second, yield the same request body: the same
\* ops in the same order with the same temporary ids.
C3_SameBodyAfterReset ==
    (/\ result.kind \in {"transform", "adapter"}
     /\ ~result.raised
     /\ result.afterReset
     /\ prevBody.kind = "body")
        => result.requestBody = prevBody.body

\* a second transform after a reset, of a theme that yields variables and values
C3_Witness ==
    /\ result.kind = "transform"
    /\ result.afterReset
    /\ prevBody.kind = "body"
    /\ Len(result.requestBody.variables) > 0
    /\ Len(result.requestBody.variableModeValues) > 0
    /\ result.requestBody = prevBody.body

-----------------------------------------------------------------------------
(* Properties: the ops of a successful transform *)

\* the latest call yielded a request body and a report
Transformed == result.kind \in {"transform", "adapter"} /\ ~result.raised

Body == result.requestBody
Report == result.report

Collections == 1..Len(theme.collections)

\* the collection-create op of the i-th collection of the theme
CollectionOp(i) == Body.variableCollections[i]

\* the mode-create ops that belong to the i-th collection, in emission order
ModeOps(i) ==
    SelectSeq(Body.variableModes,
              LAMBDA m : m.variableCollectionId = CollectionOp(i).id)

\* the id the body binds to mode m of the i-th collection: initialModeId for
\* the default mode, the id of the mode-create op of that name otherwise
ModeIdOf(i, m) ==
    IF m = theme.collections[i].defaultMode
    THEN CollectionOp(i).initialModeId
    ELSE LET ops == ModeOps(i)
         IN  ops[CHOOSE k \in 1..Len(ops) : ops[k].name = m].id

RECURSIVE LeavesOf(_, _)
\* the leaf tokens under a node with the path of keys that leads to each:
\* descent stops at a leaf, keys that start with $ are metadata
LeavesOf(node, base) ==
    IF node.kind = "token" THEN { [path |-> base, token |-> node] }
    ELSE IF node.kind = "group"
    THEN UNION { IF StartsWithDollar(node.entries[k].key) THEN {}
                 ELSE LeavesOf(node.entries[k].node, Append(base, node.entries[k].key))
                    : k \in 1..Len(node.entries) }
    ELSE {}

\* the leaves of the tree of mode m of the i-th collection
ModeLeaves(i, m) ==
    LET c == theme.collections[i]
    IN  IF m \in DOMAIN c.tokens THEN LeavesOf(c.tokens[m], << >>) ELSE {}

DefaultLeaves(i) == ModeLeaves(i, theme.collections[i].defaultMode)

ModesOf(i) == { theme.collections[i].modes[k] : k \in 1..Len(theme.collections[i].modes) }

\* positions of the variable-create ops of the i-th collection for path p
VariableOps(i, p) ==
    { k \in 1..Len(Body.variables) :
        /\ Body.variables[k].variableCollectionId = CollectionOp(i).id
        /\ Body.variables[k].name = Join(p, Slash) }

\* positions of the mode-value ops for a variable id and a mode id
ValueOps(variableId, modeId) ==
    { k \in 1..Len(Body.variableModeValues) :
        /\ Body.variableModeValues[k].variableId = variableId
        /\ Body.variableModeValues[k].modeId = modeId }

\* the path the report uses for the token at path p of mode m of collection i
ReportPath(i, m, p) == theme.collections[i].name \o Dot \o m \o Dot \o Join(p, Dot)

Literal(token) == token.value.t # "ref"

\* C4: for every collection the body holds |modes| - 1 mode-create ops, one
\* for each non-default mode in declared order; the default mode gets no
\* mode-create op, its id is the initialModeId of the collection-create op,
\* and the values of the default-mode tree are set under that id.
C4_ModeCreateOps ==
    Transformed =>
        /\ Len(Body.variableCollections) = Len(theme.collections)
        /\ \A i, j \in Collections : i # j => CollectionOp(i).id # CollectionOp(j).id
        /\ \A k \in 1..Len(Body.variableModes) :
              \E i \in Collections :
                  Body.variableModes[k].variableCollectionId = CollectionOp(i).id
        /\ \A i \in Collections :
              LET c == theme.collections[i]
                  ops == ModeOps(i)
              IN  /\ Len(ops) = Len(c.modes) - 1
                  /\ [k \in 1..Len(ops) |-> ops[k].name]
                        = SelectSeq(c.modes, LAMBDA m : m # c.defaultMode)
                  /\ \A k \in 1..Len(ops) :
                        /\ ops[k].action = "CREATE"
                        /\ ops[k].name # c.defaultMode
                        /\ ops[k].id # CollectionOp(i).initialModeId
                        /\ \A h \in 1..Len(ops) : h # k => ops[h].id # ops[k].id
                  /\ \A l \in DefaultLeaves(i) : \A v \in VariableOps(i, l.path) :
                        Literal(l.token) <=>
                            ValueOps(Body.variables[v].id, CollectionOp(i).initialModeId) # {}

\* a collection of three modes whose default mode is not the first one listed
C4_Witness ==
    /\ Transformed
    /\ \E i \in Collections :
          LET c == theme.collections[i] IN
          /\ Len(c.modes) = 3
          /\ c.defaultMode # c.modes[1]
          /\ Len(ModeOps(i)) = 2
          /\ ModeOps(i)[1].name = c.modes[1]

\* the eight composite token types
CompositeKinds ==
    {"typography", "shadow", "border", "gradient", "transition", "animation",
     "keyframes", "cubicBezier"}

StylesSuggestion == "Consider using Figma Styles API for composite types"

\* the composite leaves of the default-mode trees whose report path is
\* reportPath and whose type is type, as pairs of collection and path
CompositeLeavesAt(reportPath, type) ==
    UNION { { <<i, l.path>> : l \in { x \in DefaultLeaves(i) :
                                         /\ x.token.type = type
                                         /\ Join(x.path, Dot) = reportPath } }
            : i \in Collections }

\* C5: every leaf of a default-mode tree whose type is one of the eight
\* composite types gets no variable-create op, and the report holds exactly
\* one Skipped entry for it: its dotted path, its type, and the suggestion to
\* use the Styles API (entries carry no collection, so leaves of the same
\* path and type in several collections are counted together).
C5_CompositeSkipped ==
    Transformed =>
        \A i \in Collections : \A l \in DefaultLeaves(i) :
            l.token.type \in CompositeKinds =>
                /\ VariableOps(i, l.path) = {}
                /\ Cardinality({ k \in 1..Len(Report.skipped) :
                                    /\ Report.skipped[k].path = Join(l.path, Dot)
                                    /\ Report.skipped[k].originalType = l.token.type })
                     = Cardinality(CompositeLeavesAt(Join(l.path, Dot), l.token.type))
                /\ \A k \in 1..Len(Report.skipped) :
                        (/\ Report.skipped[k].path = Join(l.path, Dot)
                         /\ Report.skipped[k].originalType = l.token.type)
                            => Report.skipped[k].suggestion = StylesSuggestion

\* a hidden composite leaf was skipped with its entry although skipHidden is set
C5_Witness ==
    /\ Transformed
    /\ options.skipHidden
    /\ \E i \in Collections : \E l \in DefaultLeaves(i) :
          /\ l.token.type = "shadow"
          /\ l.token.hidden
          /\ \E k \in 1..Len(Report.skipped) :
                /\ Report.skipped[k].path = Join(l.path, Dot)
                /\ Report.skipped[k].originalType = l.token.type
                /\ Report.skipped[k].suggestion = StylesSuggestion

-----------------------------------------------------------------------------
(* Properties: lossy and unmappable tokens *)

\* positions of the warnings of a code for a report path
WarningsAt(code, reportPath) ==
    { k \in 1..Len(Report.warnings) :
        /\ Report.warnings[k].code = code
        /\ Report.warnings[k].path = reportPath }

\* positions of the Skipped entries for a report path
SkippedAt(reportPath) ==
    { k \in 1..Len(Report.skipped) : Report.skipped[k].path = reportPath }

\* a dimension token with a literal value
DimensionLiteral(token) == token.type = "dimension" /\ token.value.t = "unitValue"

\* the mode value set for path p of mode m of collection i is the number n
ValueIsNumber(i, m, p, n) ==
    \A v \in VariableOps(i, p) :
        LET ops == ValueOps(Body.variables[v].id, ModeIdOf(i, m))
        IN  /\ Cardinality(ops) = 1
            /\ \A k \in ops : Body.variableModeValues[k].value = Num(n)

\* what C6 and its correction say of one dimension token
DimensionHandled(i, m, l) ==
    LET n == Cardinality(WarningsAt("UNIT_DISCARDED", ReportPath(i, m, l.path)))
    IN  IF l.token.value.unit # "px"
        THEN /\ n = 1
             /\ VariableOps(i, l.path) # {}
             /\ ValueIsNumber(i, m, l.path, l.token.value.value)
        ELSE n = 0

\* C6 as stated: for every dimension token of the theme with a unit other
\* than px the report holds exactly one UNIT_DISCARDED warning whose path
\* references it and its mode value is the bare number; a px dimension
\* produces no UNIT_DISCARDED warning.
C6_EveryDimensionToken ==
    Transformed =>
        \A i \in Collections : \A m \in ModesOf(i) : \A l \in ModeLeaves(i, m) :
            DimensionLiteral(l.token) => DimensionHandled(i, m, l)

\* C6, corrected: the statement holds for the dimension tokens that sit, in
\* any mode, at the path of an emitted variable (a default-mode leaf of a
\* representable type that skipHidden did not drop); the warning's path is
\* collection.mode.path. No other UNIT_DISCARDED warning is recorded: a
\* dimension token at any other path is dropped without one.
C6_DimensionOfEmittedVariable ==
    Transformed =>
        /\ \A i \in Collections : \A m \in ModesOf(i) : \A l \in ModeLeaves(i, m) :
              (DimensionLiteral(l.token) /\ VariableOps(i, l.path) # {})
                  => DimensionHandled(i, m, l)
        /\ \A k \in 1..Len(Report.warnings) :
              Report.warnings[k].code = "UNIT_DISCARDED" =>
                  \E i \in Collections : \E m \in ModesOf(i) : \E l \in ModeLeaves(i, m) :
                      /\ DimensionLiteral(l.token)
                      /\ l.token.value.unit # "px"
                      /\ VariableOps(i, l.path) # {}
                      /\ Report.warnings[k].path = ReportPath(i, m, l.path)

\* a non-default mode holds a rem dimension at the path of a variable whose
\* default-mode leaf is a px dimension: one warning, for the non-default mode
C6_Witness ==
    /\ Transformed
    /\ \E i \in Collections :
          LET c == theme.collections[i] IN
          \E m \in ModesOf(i) : \E l \in ModeLeaves(i, m) : \E d \in DefaultLeaves(i) :
              /\ m # c.defaultMode
              /\ d.path = l.path
              /\ DimensionLiteral(d.token) /\ d.token.value.unit = "px"
              /\ DimensionLiteral(l.token) /\ l.token.value.unit = "rem"
              /\ Cardinality(WarningsAt("UNIT_DISCARDED", ReportPath(i, m, l.path))) = 1
              /\ WarningsAt("UNIT_DISCARDED", ReportPath(i, c.defaultMode, l.path)) = {}

\* the token types that map to a Figma variable type
RepresentableKinds ==
    {"color", "dimension", "number", "string", "boolean", "fontFamily",
     "fontWeight", "duration"}

\* a leaf the write path cannot carry over as it is
Unmappable(token) ==
    \/ token.type \notin RepresentableKinds
    \/ ~Literal(token)
    \/ (token.type = "dimension" /\ token.value.unit # "px")
    \/ (token.type = "fontFamily" /\ Len(token.value.items) > 1)

\* the report holds a Skipped entry or a Warning for leaf l of mode m of collection i
Recorded(i, m, l) ==
    \/ SkippedAt(Join(l.path, Dot)) # {}
    \/ SkippedAt(ReportPath(i, m, l.path)) # {}
    \/ \E k \in 1..Len(Report.warnings) :
          Report.warnings[k].path = ReportPath(i, m, l.path)

\* the variable of path p of collection i has exactly one mode-value op for mode m
HasValue(i, m, p) ==
    /\ Cardinality(VariableOps(i, p)) = 1
    /\ \A v \in VariableOps(i, p) :
          Cardinality(ValueOps(Body.variables[v].id, ModeIdOf(i, m))) = 1

\* C9 as stated: transformToFigmaVariables returns without raising, every
\* leaf of the theme that is a composite type, an unknown type, a reference,
\* a non-px dimension or a multi-entry font stack is recorded as a Skipped
\* entry or a Warning, and every representable token of the theme gets its
\* variable-create op and its mode-value op.
C9_EveryUnmappableLeafRecorded ==
    /\ result.kind = "transform" =>
          ~result.raised /\ {"requestBody", "report"} \subseteq DOMAIN result
    /\ Transformed =>
          \A i \in Collections : \A m \in ModesOf(i) : \A l \in ModeLeaves(i, m) :
              /\ Unmappable(l.token) => Recorded(i, m, l)
              /\ (l.token.type \in RepresentableKinds /\ Literal(l.token))
                    => HasValue(i, m, l.path)

\* C9, corrected: transformToFigmaVariables returns without raising whatever
\* leaves the theme holds. A composite or unknown-type leaf of a default-mode
\* tree gets a Skipped entry and no variable; every other default-mode leaf
\* gets its variable-create op unless skipHidden drops it. In every mode, a
\* leaf at the path of an emitted variable is recorded as Skipped when it is
\* a reference and with a Warning when it is a non-px dimension or a
\* multi-entry font stack, and gets its mode-value op when it is a literal of
\* a representable type. A leaf that skipHidden drops, and a leaf at a path
\* for which no variable is emitted, is not recorded.
C9_UnmappableLeafNeverAborts ==
    /\ result.kind = "transform" =>
          ~result.raised /\ {"requestBody", "report"} \subseteq DOMAIN result
    /\ Transformed =>
          \A i \in Collections :
              /\ \A l \in DefaultLeaves(i) :
                    IF l.token.type \notin RepresentableKinds
                    THEN /\ VariableOps(i, l.path) = {}
                         /\ \E k \in SkippedAt(Join(l.path, Dot)) :
                               Report.skipped[k].originalType = l.token.type
                    ELSE IF options.skipHidden /\ l.token.hidden
                    THEN VariableOps(i, l.path) = {}
                    ELSE Cardinality(VariableOps(i, l.path)) = 1
              /\ \A m \in ModesOf(i) : \A l \in ModeLeaves(i, m) :
                    LET at == ReportPath(i, m, l.path) IN
                    IF VariableOps(i, l.path) = {}
                    THEN /\ SkippedAt(at) = {}
                         /\ \A k \in 1..Len(Report.warnings) : Report.warnings[k].path # at
                    ELSE /\ ~Literal(l.token) => Cardinality(SkippedAt(at)) = 1
                         /\ (DimensionLiteral(l.token) /\ l.token.value.unit # "px")
                               => Cardinality(WarningsAt("UNIT_DISCARDED", at)) = 1
                         /\ (/\ Literal(l.token)
                              /\ l.token.type = "fontFamily"
                              /\ Len(l.token.value.items) > 1)
                               => Cardinality(WarningsAt("VALUE_TRUNCATED", at)) = 1
                         /\ (Literal(l.token) /\ l.token.type \in RepresentableKinds)
                               => HasValue(i, m, l.path)

\* a composite leaf comes first in a default-mode tree: it is recorded as
\* Skipped and the leaf after it still has its variable and its value
C9_Witness ==
    /\ result.kind = "transform"
    /\ \E i \in Collections :
          LET c == theme.collections[i] IN
          \E l \in DefaultLeaves(i) : \E o \in DefaultLeaves(i) :
              /\ l.path = <<keyG, keyA>>
              /\ l.token.type \in CompositeKinds
              /\ SkippedAt(Join(l.path, Dot)) # {}
              /\ o.path = <<keyB>>
              /\ HasValue(i, c.defaultMode, o.path)

\* C10 as stated: for every emitted variable and every mode its collection
\* declares there is exactly one mode-value op for the pair if the mode's own
\* tree holds a leaf with a non-reference value at the variable's path, and
\* none otherwise; a path absent from a mode's tree leaves no Skipped entry
\* and no Warning.
C10_OneValuePerVariableAndMode ==
    Transformed =>
        \A i \in Collections : \A d \in DefaultLeaves(i) : \A v \in VariableOps(i, d.path) :
            \A m \in ModesOf(i) :
                LET leaves == { l \in ModeLeaves(i, m) : l.path = d.path }
                    n == Cardinality(ValueOps(Body.variables[v].id, ModeIdOf(i, m)))
                    at == ReportPath(i, m, d.path)
                IN  /\ n = IF \E l \in leaves : Literal(l.token) THEN 1 ELSE 0
                    /\ leaves = {} =>
                          /\ SkippedAt(at) = {}
                          /\ \A k \in 1..Len(Report.warnings) : Report.warnings[k].path # at

-----------------------------------------------------------------------------
(* Properties: value converters *)

\* the string is one of the keywords of the table, whatever its case
RecognisedKeyword(str) == \E p \in keywords : p[1] = toLowerCase(str)

\* C7 as stated: the font-weight conversion maps a number to itself, a
\* recognised keyword through the table whatever its case (thin = 100,
\* bold = 700, black = 900), and every other string to the number 400; the
\* result is always a number.
C7_FontWeightTotal ==
    conv.fn \in {"fontWeightToNumber", "normalizeFontWeight"} =>
        /\ conv.out.t = "number"
        /\ conv.in.t = "number" => conv.out = conv.in
        /\ (conv.in.t = "string" /\ RecognisedKeyword(conv.in.s)) =>
              \E p \in keywords : p[1] = toLowerCase(conv.in.s) /\ conv.out = Num(p[2])
        /\ (conv.in.t = "string" /\ toLowerCase(conv.in.s) = <<"t","h","i","n">>)
              => conv.out = Num(100)
        /\ (conv.in.t = "string" /\ toLowerCase(conv.in.s) = <<"b","o","l","d">>)
              => conv.out = Num(700)
        /\ (conv.in.t = "string" /\ toLowerCase(conv.in.s) = <<"b","l","a","c","k">>)
              => conv.out = Num(900)
        /\ (conv.in.t = "string" /\ ~RecognisedKeyword(conv.in.s)) => conv.out = Num(400)

\* C8: a colour read with convertFigmaColor and written back with
\* colorToFigmaRGBA equals the input component by component, for every RGBA
\* value with its channels in [0,1].
C8_ColorRoundTrip ==
    conv.fn = "colorRoundTrip" =>
        /\ conv.out.r = conv.in.r
        /\ conv.out.g = conv.in.g
        /\ conv.out.b = conv.in.b
        /\ conv.out.a = conv.in.a

\* a colour whose four channels all differ from one another came back unchanged
\* in the red and the alpha channel
C8_Witness ==
    /\ conv.fn = "colorRoundTrip"
    /\ conv.in.r = ColorSteps /\ conv.in.g = 0 /\ conv.in.b = 1
    /\ conv.in.a \notin {0, ColorSteps}
    /\ conv.out.r = ColorSteps /\ conv.out.a = conv.in.a

-----------------------------------------------------------------------------
(* Properties: variable-create ops *)

\* the fixed table from token type to the resolved type of a variable
ExpectedResolvedType(type) ==
    CASE type = "color" -> "COLOR"
      [] type \in {"dimension", "number", "fontWeight", "duration"} -> "FLOAT"
      [] type \in {"string", "fontFamily"} -> "STRING"
      [] type = "boolean" -> "BOOLEAN"

\* leaf l of the default-mode tree of collection i has exactly one
\* variable-create op, with the name, collection, description and type of C11
OneVariableCreate(i, l) ==
    /\ Cardinality(VariableOps(i, l.path)) = 1
    /\ \A k \in VariableOps(i, l.path) :
          /\ Body.variables[k].action = "CREATE"
          /\ Body.variables[k].name = Join(l.path, Slash)
          /\ Body.variables[k].variableCollectionId = CollectionOp(i).id
          /\ Body.variables[k].description = l.token.description
          /\ Body.variables[k].resolvedType = ExpectedResolvedType(l.token.type)

\* C11 as stated: every representable leaf of a collection's default-mode
\* tree yields exactly one variable-create op: its name is the path joined by
\* "/", its variableCollectionId the collection's id, its description the
\* default-mode token's description, its resolvedType the one of the table.
C11_EveryRepresentableLeaf ==
    Transformed =>
        \A i \in Collections : \A l \in DefaultLeaves(i) :
            l.token.type \in RepresentableKinds => OneVariableCreate(i, l)

\* C11, corrected: the statement holds for every representable default-mode
\* leaf that skipHidden does not drop (a leaf is dropped when it carries the
\* hidden flag and options.skipHidden is set), and the body holds no other
\* variable-create op.
C11_VariableCreateOps ==
    Transformed =>
        /\ \A i \in Collections : \A l \in DefaultLeaves(i) :
              (l.token.type \in RepresentableKinds
                 /\ ~(options.skipHidden /\ l.token.hidden))
                  => OneVariableCreate(i, l)
        /\ \A k \in 1..Len(Body.variables) :
              \E i \in Collections : \E l \in DefaultLeaves(i) :
                  /\ l.token.type \in RepresentableKinds
                  /\ ~(options.skipHidden /\ l.token.hidden)
                  /\ k \in VariableOps(i, l.path)

\* a nested leaf and a leaf with a description both have their op
C11_Witness ==
    /\ Transformed
    /\ \E i \in Collections :
          \E l \in DefaultLeaves(i) : \E o \in DefaultLeaves(i) :
              /\ l.path = <<keyG, keyA>>
              /\ l.token.type = "dimension"
              /\ OneVariableCreate(i, l)
              /\ o.token.description = "Background color"
              /\ OneVariableCreate(i, o)

-----------------------------------------------------------------------------
(* Properties: references on the write path *)

\* C12: for every emitted variable and every mode whose tree holds a
\* reference at the variable's path, no mode-value op is emitted for the pair
\* and the report holds exactly one Skipped entry for collection.mode.path;
\* the variable-create op is emitted all the same, and every other mode that
\* holds a literal of a representable type there still gets its mode-value op.
C12_ReferenceSkippedPerMode ==
    Transformed =>
        \A i \in Collections : \A m \in ModesOf(i) : \A l \in ModeLeaves(i, m) :
            (VariableOps(i, l.path) # {} /\ ~Literal(l.token)) =>
                /\ Cardinality(VariableOps(i, l.path)) = 1
                /\ \A v \in VariableOps(i, l.path) :
                      ValueOps(Body.variables[v].id, ModeIdOf(i, m)) = {}
                /\ Cardinality(SkippedAt(ReportPath(i, m, l.path))) = 1
                /\ \A k \in SkippedAt(ReportPath(i, m, l.path)) :
                      Report.skipped[k].originalType = l.token.type
                /\ \A o \in ModesOf(i) : \A x \in ModeLeaves(i, o) :
                      (/\ o # m
                       /\ x.path = l.path
                       /\ Literal(x.token)
                       /\ x.token.type \in RepresentableKinds)
                          => HasValue(i, o, l.path)

\* the default mode holds a reference and the other mode a literal at the
\* same path: one Skipped entry, and a value for the other mode only
C12_Witness ==
    /\ Transformed
    /\ \E i \in Collections :
          LET c == theme.collections[i] IN
          \E l \in DefaultLeaves(i) : \E o \in ModesOf(i) : \E x \in ModeLeaves(i, o) :
              /\ ~Literal(l.token)
              /\ o # c.defaultMode
              /\ x.path = l.path
              /\ Literal(x.token)
              /\ Cardinality(SkippedAt(ReportPath(i, c.defaultMode, l.path))) = 1
              /\ HasValue(i, o, l.path)
              /\ \A v \in VariableOps(i, l.path) :
                    ValueOps(Body.variables[v].id, ModeIdOf(i, c.defaultMode)) = {}

-----------------------------------------------------------------------------
(* Properties: the read path *)

RECURSIVE ReferencePath(_, _)
\* the characters of a reference path for the first k characters of a
\* variable name: a slash becomes a dot, a run of white space one hyphen,
\* every other character its lower-case form
ReferencePath(name, k) ==
    IF k = 0 THEN << >>
    ELSE ReferencePath(name, k - 1) \o
         (IF name[k] = "/" THEN <<".">>
          ELSE IF IsSpace(name[k])
          THEN IF k > 1 /\ IsSpace(name[k - 1]) THEN << >> ELSE <<"-">>
          ELSE <<LowerChar(name[k])>>)

\* the variables of the host file that carry the id
VariablesWithId(variables, id) ==
    { variables[k] : k \in PositionsOfId(variables, id) }

\* C13: a value that is an alias becomes a TokenReference; when the id names a
\* variable of the file the reference is the name of that variable, its
\* segments lower-cased with runs of white space turned into hyphens and
\* joined by dots, in braces; when it names none the reference is the raw id
\* in braces
C13_AliasBecomesReference ==
    (conv.fn = "createToken" /\ isVariableAlias(conv.in.value)) =>
        /\ isTokenReference(conv.out.value)
        /\ \A v \in VariablesWithId(conv.in.variables, conv.in.value.id) :
              conv.out.value.ref =
                    <<"{">> \o ReferencePath(v.name, Len(v.name)) \o <<"}">>
        /\ VariablesWithId(conv.in.variables, conv.in.value.id) = {} =>
              conv.out.value.ref = <<"{">> \o conv.in.value.id \o <<"}">>

\* an alias to "Co/P 5" was converted into {co.p-5}
C13_Witness ==
    /\ conv.fn = "createToken"
    /\ isVariableAlias(conv.in.value)
    /\ conv.in.variables[1].name = <<"C","o","/","P"," ","5">>
    /\ conv.in.value.id = conv.in.variables[1].id
    /\ conv.out.value = TokenReference(<<"{","c","o",".","p","-","5","}">>)

\* the host collections that are not hidden and own a variable, in file order
Surviving(file) ==
    SelectSeq(file.collections,
              LAMBDA c : /\ ~c.hiddenFromPublishing
                         /\ \E k \in 1..Len(file.variables) :
                                file.variables[k].variableCollectionId = c.id)

\* C14: parseVariables returns one TokenCollection for each host collection
\* that is not hidden and owns a variable, in the order of the host
\* collections, and nothing for a collection that is hidden or owns none
C14_OneCollectionPerSurvivor ==
    conv.fn = "parseVariables" =>
        /\ Len(conv.out) = Len(Surviving(conv.in))
        /\ \A k \in 1..Len(conv.out) : conv.out[k].name = Surviving(conv.in)[k].name

\* a file of a hidden collection followed by a visible one that owns a
\* variable was parsed into the visible collection alone
C14_Witness ==
    /\ conv.fn = "parseVariables"
    /\ Len(conv.in.collections) = 2
    /\ conv.in.collections[1].hiddenFromPublishing
    /\ Len(conv.in.variables) = 2
    /\ Len(conv.out) = 1
    /\ conv.out[1].name = conv.in.collections[2].name

\* the host collection a parsed collection came from
HostOf(file, parsed) ==
    CHOOSE c \in { file.collections[k] : k \in 1..Len(file.collections) } :
        c.name = parsed.name

\* the modes of a host collection that carry the id
ModesWithId(collection, id) ==
    { collection.modes[k] : k \in { h \in 1..Len(collection.modes) :
                                        collection.modes[h].modeId = id } }

\* the parsed modes are the names of the host modes in their order
ModesInOrder(file, parsed) ==
    /\ Len(parsed.modes) = Len(HostOf(file, parsed).modes)
    /\ \A k \in 1..Len(parsed.modes) :
          parsed.modes[k] = HostOf(file, parsed).modes[k].name

\* C15: for each surviving collection the parsed modes are the names of the
\* host modes in the given order, and defaultMode is the name of the mode
\* whose modeId equals defaultModeId, or the name of the first mode when no
\* mode has that id
C15_ModesAndDefaultMode ==
    conv.fn = "parseVariables" =>
        \A k \in 1..Len(conv.out) :
            LET parsed == conv.out[k]
                host == HostOf(conv.in, parsed)
            IN  /\ ModesInOrder(conv.in, parsed)
                /\ \A mode \in ModesWithId(host, host.defaultModeId) :
                      parsed.defaultMode = mode.name
                /\ ModesWithId(host, host.defaultModeId) = {} =>
                      parsed.defaultMode = host.modes[1].name

\* C15, the part that holds: the modes are in order, the default mode is the
\* first mode when no mode has the id, and the mode of that id when its
\* name is not empty
C15_DefaultModeOfNamedModes ==
    conv.fn = "parseVariables" =>
        \A k \in 1..Len(conv.out) :
            LET parsed == conv.out[k]
                host == HostOf(conv.in, parsed)
            IN  /\ ModesInOrder(conv.in, parsed)
                /\ \A mode \in ModesWithId(host, host.defaultModeId) :
                      mode.name # << >> => parsed.defaultMode = mode.name
                /\ ModesWithId(host, host.defaultModeId) = {} =>
                      parsed.defaultMode = host.modes[1].name

\* the scopes that make a FLOAT variable a dimension
DimensionTypeScopes ==
    {"CORNER_RADIUS", "WIDTH_HEIGHT", "GAP", "FONT_SIZE", "LINE_HEIGHT", "LETTER_SPACING"}

\* C16: the type inferred from (resolvedType, scopes) is defined for every
\* variable: STRING is fontFamily with scope FONT_FAMILY and string without;
\* FLOAT is fontWeight with scope FONT_WEIGHT whatever the other scopes,
\* dimension with one of the six dimension scopes, number otherwise; COLOR is
\* color, BOOLEAN is boolean, every other resolvedType is string
C16_TypeInference ==
    conv.fn = "detectTokenType" =>
        LET rt == conv.in.resolvedType
            sc == conv.in.scopes
        IN  /\ conv.out \in {"color", "boolean", "string", "fontFamily",
                              "fontWeight", "dimension", "number"}
            /\ (rt = "STRING" /\ "FONT_FAMILY" \in sc) => conv.out = "fontFamily"
            /\ (rt = "STRING" /\ "FONT_FAMILY" \notin sc) => conv.out = "string"
            /\ (rt = "FLOAT" /\ "FONT_WEIGHT" \in sc) => conv.out = "fontWeight"
            /\ (rt = "FLOAT" /\ "FONT_WEIGHT" \notin sc /\ sc \cap DimensionTypeScopes # {})
                    => conv.out = "dimension"
            /\ (rt = "FLOAT" /\ "FONT_WEIGHT" \notin sc /\ sc \cap DimensionTypeScopes = {})
                    => conv.out = "number"
            /\ rt = "COLOR" => conv.out = "color"
            /\ rt = "BOOLEAN" => conv.out = "boolean"
            /\ rt \notin {"STRING", "FLOAT", "COLOR", "BOOLEAN"} => conv.out = "string"

\* a FLOAT variable with the scopes FONT_WEIGHT and GAP was inferred to be a
\* fontWeight
C16_Witness ==
    /\ conv.fn = "detectTokenType"
    /\ conv.in.resolvedType = "FLOAT"
    /\ conv.in.scopes = {"FONT_WEIGHT", "GAP"}
    /\ conv.out = "fontWeight"

-----------------------------------------------------------------------------
(* Properties: the report *)

\* the two counters of a report that count list entries equal the lengths
CountersMatchLists(report) ==
    /\ report.stats.skipped = Len(report.skipped)
    /\ report.stats.warnings = Len(report.warnings)

\* C17: after any sequence of report operations stats.skipped is the length
\* of the skipped list and stats.warnings the length of the warnings list;
\* and in the result of a transform call collectionsCreated, modesCreated,
\* variablesCreated and valuesSet are the lengths of the request body's
\* lists of collection, mode, variable and mode-value ops
C17_CountersEqualLengths ==
    /\ CountersMatchLists(builder)
    /\ (result.kind \in {"transform", "adapter"} /\ ~result.raised) =>
          /\ CountersMatchLists(result.report)
          /\ result.report.stats.collectionsCreated
                = Len(result.requestBody.variableCollections)
          /\ result.report.stats.modesCreated = Len(result.requestBody.variableModes)
          /\ result.report.stats.variablesCreated = Len(result.requestBody.variables)
          /\ result.report.stats.valuesSet = Len(result.requestBody.variableModeValues)

\* the client's builder holds a skipped entry and a warning, and the adapter
\* returned a request body with ops of every kind and a report with the
\* SOURCE_MATCH warning after the warnings of the transformer
C17_Witness ==
    /\ builder.stats.skipped = 1
    /\ builder.stats.warnings = 1
    /\ result.kind = "adapter"
    /\ ~result.raised
    /\ Len(result.requestBody.variableModes) > 0
    /\ Len(result.requestBody.variableModeValues) > 0
    /\ Len(result.report.skipped) > 0
    /\ Len(result.report.warnings) > 1
    /\ result.report.warnings[Len(result.report.warnings)].code = "SOURCE_MATCH"

-----------------------------------------------------------------------------
(* Properties: the input adapter *)

\* the input carries neither payload
NoPayload(source) == source.mcpData = Absent /\ source.variablesResponse = Absent

\* something the validation objects to: no payload, an MCP payload without
\* a file name, a response with an error or without variables or collections
Objectionable(source) ==
    \/ NoPayload(source)
    \/ source.mcpData # Absent /\ source.mcpData.name \in {Undefined, ""}
    \/ /\ source.variablesResponse # Absent
       /\ \/ source.variablesResponse.error
          \/ source.variablesResponse.meta = Absent
          \/ source.variablesResponse.meta.variables = Absent
          \/ source.variablesResponse.meta.variableCollections = Absent

\* C18: parse fails with a message that contains "Invalid Figma input" and
\* yields no ThemeFile when the input carries neither mcpData nor
\* variablesResponse; validate reports such an input invalid with at least
\* one error message; validate reports valid exactly when it collected no
\* error, which is when there is nothing to object to
C18_InvalidInputFails ==
    /\ (conv.fn = "parse" /\ NoPayload(conv.in)) =>
          /\ conv.out.raised
          /\ "theme" \notin DOMAIN conv.out
          /\ \E k \in 1..Len(conv.out.message) :
                conv.out.message[k] = "Invalid Figma input"
    /\ (conv.fn = "validate" /\ NoPayload(conv.in)) =>
          /\ ~conv.out.valid
          /\ conv.out.errors # Absent
          /\ Len(conv.out.errors.items) >= 1
    /\ conv.fn = "validate" =>
          /\ conv.out.valid <=> conv.out.errors = Absent
          /\ conv.out.valid <=> ~Objectionable(conv.in)
          /\ conv.out.errors # Absent => Len(conv.out.errors.items) >= 1

\* parse was called on an input with a file key and no payload and failed
C18_Witness ==
    /\ conv.fn = "parse"
    /\ NoPayload(conv.in)
    /\ conv.in.fileKey = "fileA"
    /\ conv.out.raised
    /\ conv.out.message =
          <<"Invalid Figma input", ": ",
            "Either mcpData or variablesResponse must be provided">>

-----------------------------------------------------------------------------
(* Properties: hidden tokens on the write path *)

RECURSIVE Unhide(_)
\* a node with the hidden flag taken off every token under it
Unhide(node) ==
    IF node.kind = "token" THEN [node EXCEPT !.hidden = FALSE]
    ELSE IF node.kind = "group"
    THEN Group([k \in 1..Len(node.entries) |->
                    Entry(node.entries[k].key, Unhide(node.entries[k].node))])
    ELSE node

\* the theme with no token flagged hidden
Unhidden(th) ==
    [th EXCEPT !.collections =
        [i \in 1..Len(th.collections) |->
            [th.collections[i] EXCEPT !.tokens =
                [m \in DOMAIN th.collections[i].tokens |->
                    Unhide(th.collections[i].tokens[m])]]]]

\* the latest call yielded the body and the report it would have yielded
\* had no token of the theme carried the flag
SameAsUnhidden ==
    LET t == IF result.kind = "transform"
             THEN transformToFigmaVariables(Unhidden(theme), options, 0)
             ELSE AdapterTransformResult(Unhidden(theme), options, 0)
    IN  /\ Body = t.requestBody
        /\ Report = t.report

\* the collections whose default-mode tree holds, at path p, a leaf of a type
\* that is not representable; hidden leaves count when withHidden
UnsupportedAt(p, withHidden) ==
    { j \in Collections :
        \E x \in DefaultLeaves(j) :
            /\ x.path = p
            /\ x.token.type \notin RepresentableKinds
            /\ withHidden \/ ~x.token.hidden }

\* leaf l of collection i left no variable-create op, no mode-value op and
\* no Skipped entry or Warning under a mode of its collection
NoOpsFor(i, l) ==
    /\ VariableOps(i, l.path) = {}
    /\ \A m \in ModesOf(i) :
          /\ SkippedAt(ReportPath(i, m, l.path)) = {}
          /\ \A k \in 1..Len(Report.warnings) :
                Report.warnings[k].path # ReportPath(i, m, l.path)

\* C19 as stated: with skipHidden set every hidden default-mode leaf is
\* dropped without a variable-create op, a mode-value op, a Skipped entry or
\* a Warning, whatever its type: the Skipped entries for its path are those
\* of the leaves that are not hidden; with skipHidden not set the flag has
\* no effect on the output.
C19_HiddenDroppedWhateverType ==
    Transformed =>
        /\ options.skipHidden =>
              \A i \in Collections : \A l \in DefaultLeaves(i) :
                  l.token.hidden =>
                      /\ NoOpsFor(i, l)
                      /\ Cardinality(SkippedAt(Join(l.path, Dot)))
                            = Cardinality(UnsupportedAt(l.path, FALSE))
        /\ ~options.skipHidden => SameAsUnhidden

\* C19, corrected: with skipHidden set a hidden default-mode leaf gets no
\* variable-create op, no mode-value op and no Warning; it gets no Skipped
\* entry when its type is representable, and the Skipped entry of its type
\* when that is a composite or an unknown type, hidden or not; with
\* skipHidden not set the flag has no effect on the output.
C19_HiddenRepresentableDropped ==
    Transformed =>
        /\ options.skipHidden =>
              \A i \in Collections : \A l \in DefaultLeaves(i) :
                  l.token.hidden =>
                      /\ NoOpsFor(i, l)
                      /\ Cardinality(SkippedAt(Join(l.path, Dot)))
                            = Cardinality(UnsupportedAt(l.path, TRUE))
        /\ ~options.skipHidden => SameAsUnhidden

\* with skipHidden set a hidden dimension in rem left nothing behind, in a
\* theme whose other leaves did yield variables
C19_Witness ==
    /\ Transformed
    /\ options.skipHidden
    /\ Len(Body.variables) > 0
    /\ \E i \in Collections : \E l \in DefaultLeaves(i) :
          /\ l.token.hidden
          /\ l.token.type = "dimension"
          /\ NoOpsFor(i, l)
          /\ SkippedAt(Join(l.path, Dot)) = {}

-----------------------------------------------------------------------------
(* Properties: path collisions on the read path *)

\* the path of a variable in a mode tree: the segments of its name, each
\* lower-cased with white space turned into hyphens
FullPath(variable) ==
    LET segments == Split(variable.name, "/")
    IN  [k \in 1..Len(segments) |-> Kebab(segments[k])]

RECURSIVE NodeAt(_, _)
\* the node the keys of path lead to from node, UndefinedNode when a key is
\* missing on the way
NodeAt(node, path) ==
    IF path = << >> THEN node
    ELSE IF In(Head(path), node) THEN NodeAt(Child(node, Head(path)), Tail(path))
    ELSE UndefinedNode

\* the paths the depth-first flatten of a tree reports
FlattenedPaths(tree) ==
    { flattenTokens(tree, << >>)[k].path : k \in 1..Len(flattenTokens(tree, << >>)) }

\* pairs of positions (u, v) of variables of the file, u before v, of one
\* collection, both with a value in the mode, where the path of v descends
\* through the whole path of u
Collisions(file, collection, modeId) ==
    { p \in (1..Len(file.variables)) \X (1..Len(file.variables)) :
        LET u == file.variables[p[1]]
            v == file.variables[p[2]]
        IN  /\ p[1] < p[2]
            /\ u.variableCollectionId = collection.id
            /\ v.variableCollectionId = collection.id
            /\ modeId \in DOMAIN u.valuesByMode
            /\ modeId \in DOMAIN v.valuesByMode
            /\ Len(FullPath(u)) < Len(FullPath(v))
            /\ SubSeq(FullPath(v), 1, Len(FullPath(u))) = FullPath(u) }

\* C20: when the path of a variable descends through a segment that holds a
\* leaf token, the segment is turned into a group: afterwards it is not
\* leaf-shaped, and the flatten of the tree reports the new token under its
\* full path
C20_CollisionTurnsLeafIntoGroup ==
    conv.fn = "parseVariables" =>
        \A k \in 1..Len(conv.out) :
            LET host == HostOf(conv.in, conv.out[k]) IN
            \A h \in 1..Len(host.modes) :
                LET tree == conv.out[k].tokens[host.modes[h].name] IN
                \A p \in Collisions(conv.in, host, host.modes[h].modeId) :
                    /\ NodeAt(tree, FullPath(conv.in.variables[p[1]])).kind # "token"
                    /\ FullPath(conv.in.variables[p[2]]) \in FlattenedPaths(tree)

\* C20, what the code does: the segment stays leaf-shaped, the new token is
\* stored as one more property of the leaf, and the flatten of the tree
\* does not report it
C20_CollisionHidesNewToken ==
    conv.fn = "parseVariables" =>
        \A k \in 1..Len(conv.out) :
            LET host == HostOf(conv.in, conv.out[k]) IN
            \A h \in 1..Len(host.modes) :
                LET tree == conv.out[k].tokens[host.modes[h].name] IN
                \A p \in Collisions(conv.in, host, host.modes[h].modeId) :
                    /\ NodeAt(tree, FullPath(conv.in.variables[p[1]])).kind = "token"
                    /\ NodeAt(tree, FullPath(conv.in.variables[p[2]])).kind = "token"
                    /\ FullPath(conv.in.variables[p[2]]) \notin FlattenedPaths(tree)
                    /\ FullPath(conv.in.variables[p[1]]) \in FlattenedPaths(tree)

-----------------------------------------------------------------------------
(* Properties: value shapes on the read path *)

\* createToken was applied to a FLOAT variable and a literal number
FloatLiteral ==
    /\ conv.fn = "createToken"
    /\ conv.in.variable.resolvedType = "FLOAT"
    /\ conv.in.value.t = "number"

\* the value is { value, unit: "px" } holding the number n
IsPx(value, n) == value = UnitValue(n, "px")

\* C21: the shape of a token's value follows its inferred type: for a FLOAT
\* variable with a literal number, whatever its scopes, the value is
\* { value, unit: "px" } exactly when the type is dimension and the bare
\* number when the type is number or fontWeight; the value of a fontFamily
\* token is the list of the one string
C21_ValueShapeFollowsType ==
    /\ FloatLiteral =>
          /\ IsPx(conv.out.value, conv.in.value.n) <=> conv.out.type = "dimension"
          /\ conv.out.type \in {"number", "fontWeight"} =>
                conv.out.value = conv.in.value
    /\ (conv.fn = "createToken" /\ conv.out.type = "fontFamily"
            /\ conv.in.value.t = "string") =>
          conv.out.value = ArrayValue(<<conv.in.value.s>>)

\* C21, what the code does: the value is { value, unit: "px" } exactly when
\* the variable carries one of the nine scopes convertFigmaNumber knows,
\* whatever the inferred type; a dimension always has that shape
C21_ValueShapeFollowsScopes ==
    FloatLiteral =>
        /\ IsPx(conv.out.value, conv.in.value.n) <=>
              conv.in.variable.scopes \cap
                {"CORNER_RADIUS", "WIDTH_HEIGHT", "GAP", "STROKE_FLOAT", "FONT_SIZE",
                 "LINE_HEIGHT", "LETTER_SPACING", "PARAGRAPH_SPACING",
                 "PARAGRAPH_INDENT"} # {}
        /\ ~IsPx(conv.out.value, conv.in.value.n) => conv.out.value = conv.in.value
        /\ conv.out.type = "dimension" => IsPx(conv.out.value, conv.in.value.n)

-----------------------------------------------------------------------------
(* Properties: the collections the parser returns *)

\* the elements of a sequence
Range(seq) == { seq[k] : k \in 1..Len(seq) }

\* no element occurs twice in the sequence
Unique(seq) == \A h \in 1..Len(seq) : \A k \in 1..Len(seq) : seq[h] = seq[k] => h = k

\* modes has no duplicate, defaultMode is one of modes, tokens has one tree
\* for every mode and none for anything else
CollectionInvariant(parsed) ==
    /\ Unique(parsed.modes)
    /\ parsed.defaultMode \in Range(parsed.modes)
    /\ DOMAIN parsed.tokens = Range(parsed.modes)
    /\ Cardinality(DOMAIN parsed.tokens) = Len(parsed.modes)

\* C22: every TokenCollection parseVariables returns, for every host input,
\* has a modes list without duplicate names, a defaultMode that is one of
\* its modes, and a tree in tokens for each of its modes and for no other key
C22_CollectionInvariant ==
    conv.fn = "parseVariables" =>
        \A k \in 1..Len(conv.out) : CollectionInvariant(conv.out[k])

\* C22, what the code does: the invariant holds for the collections whose
\* host modes carry distinct names; with a name used twice the defaultMode
\* is still one of modes and every key of tokens is in modes
C22_InvariantOfDistinctModes ==
    conv.fn = "parseVariables" =>
        \A k \in 1..Len(conv.out) :
            LET parsed == conv.out[k]
                host == HostOf(conv.in, parsed)
            IN  /\ Unique([h \in 1..Len(host.modes) |-> host.modes[h].name])
                      => CollectionInvariant(parsed)
                /\ parsed.defaultMode \in Range(parsed.modes)
                /\ DOMAIN parsed.tokens = Range(parsed.modes)

-----------------------------------------------------------------------------
(* Properties: composite styles *)

\* extractStyleTokens was applied to the theme the latest transform call read
StylesExtracted == conv.fn = "extractStyleTokens"

\* the style-create ops named after path p, as pairs of list and position
StyleOpsAt(p) ==
    { <<"text", k>> : k \in { j \in 1..Len(conv.out.textStyles) :
                                conv.out.textStyles[j].style.name = Join(p, Slash) } }
      \cup { <<"effect", k>> : k \in { j \in 1..Len(conv.out.effectStyles) :
                                conv.out.effectStyles[j].style.name = Join(p, Slash) } }
      \cup { <<"paint", k>> : k \in { j \in 1..Len(conv.out.paintStyles) :
                                conv.out.paintStyles[j].style.name = Join(p, Slash) } }

\* the Skipped entries of the composite kinds recorded for path p
CompositeSkippedAt(p) ==
    { k \in SkippedAt(Join(p, Dot)) : Report.skipped[k].suggestion = StylesSuggestion }

\* C23: for every theme, extractStyleTokens emits style-create ops for exactly
\* the default-mode leaves that transformToFigmaVariables records as skipped
\* composite kinds: one style op for each such leaf and none for any other
\* leaf (ops and entries carry no collection, so leaves of the same path in
\* several collections are counted together).
C23_StylesForSkippedLeaves ==
    (Transformed /\ StylesExtracted) =>
        /\ ~conv.out.raised
        /\ \A i \in Collections : \A l \in DefaultLeaves(i) :
              Cardinality(StyleOpsAt(l.path)) = Cardinality(CompositeSkippedAt(l.path))

\* what does hold: when no composite value is a reference, the typography,
\* shadow and gradient leaves are the ones that get a style op
C23_StylesForThreeKinds ==
    (Transformed /\ StylesExtracted /\ ~conv.out.raised) =>
        \A i \in Collections : \A l \in DefaultLeaves(i) :
            Cardinality(StyleOpsAt(l.path))
                = Cardinality({ k \in CompositeSkippedAt(l.path) :
                                  Report.skipped[k].originalType
                                      \in {"typography", "shadow", "gradient"} })

-----------------------------------------------------------------------------
(* Properties: the theme is read only *)

RECURSIVE SetValueAt(_, _, _)
\* the tree with the $value of the token at path replaced
SetValueAt(node, path, value) ==
    IF path = <<>>
    THEN [node EXCEPT !.value = value]
    ELSE Group([k \in 1..Len(node.entries) |->
                  IF node.entries[k].key = Head(path)
                  THEN Entry(node.entries[k].key,
                             SetValueAt(node.entries[k].node, Tail(path), value))
                  ELSE node.entries[k]])

\* the places of the theme whose token yielded the k-th mode-value op: the
\* collection, the mode and the path
SourcesOf(k) ==
    { s \in UNION { { [i |-> i, m |-> m, path |-> l.path]
                        : m \in ModesOf(i), l \in DefaultLeaves(i) } : i \in Collections } :
        /\ \E v \in VariableOps(s.i, s.path) :
              Body.variables[v].id = Body.variableModeValues[k].variableId
        /\ ModeIdOf(s.i, s.m) = Body.variableModeValues[k].modeId
        /\ Navigate(ModeTree(theme.collections[s.i], s.m), s.path).kind = "token" }

\* what a write through the k-th mode-value op leaves in the theme: the
\* written value in the token the op shares its value with
ThemeAfterWrite(k, written) ==
    IF \E s \in SourcesOf(k) :
          SharesValue(Navigate(ModeTree(theme.collections[s.i], s.m), s.path))
    THEN LET s == CHOOSE x \in SourcesOf(k) :
                     SharesValue(Navigate(ModeTree(theme.collections[x.i], x.m), x.path))
         IN  [theme EXCEPT !.collections[s.i].tokens[s.m] = SetValueAt(@, s.path, written)]
    ELSE theme

\* what the client writes into a value: a channel of a colour object is set
\* in place, a number, string or boolean is replaced in its op
Written(value) ==
    IF value.t = "rgba" THEN [value EXCEPT !.g = ColorSteps] ELSE Num(0)

\* the client changes the value of a mode-value op of the body it was
\* handed, once for a body
MutateBody ==
    /\ Transformed
    /\ Body = transformToFigmaVariables(theme, options, 0).requestBody
    /\ \E k \in 1..Len(Body.variableModeValues) :
          LET written == Written(Body.variableModeValues[k].value) IN
          /\ written # Body.variableModeValues[k].value
          /\ result' = [result EXCEPT !.requestBody.variableModeValues[k].value = written]
          /\ theme' = ThemeAfterWrite(k, written)
    /\ UNCHANGED <<options, idCounter, prevBody, resetSince, conv, builder, calls>>

NextMutation ==
    \/ TransformToFigmaVariables
    \/ AdapterTransform
    \/ ExtractStyleTokens
    \/ MutateBody

\* a write that passes the gate and one the adapter refuses
MutationCases ==
    { <<Undefined, Options(Undefined, Undefined, FALSE, NoStr, NoMapping)>>,
      <<"fileA", Options("fileA", Undefined, TRUE, NoStr, NoMapping)>> }

InitMutation ==
    /\ \E c \in CollectionLists(FocusTemplates), w \in MutationCases :
          /\ theme = ThemeFile(c, w[1])
          /\ options = w[2]
    /\ Start

SpecMutation == InitMutation /\ [][NextMutation]_vars

\* C24: no call of transformToFigmaVariables, of the adapter's transform or
\* of extractStyleTokens, whether it returns or fails, and no later change
\* to a returned request body changes the theme that was passed in.
C24_ThemeUnchanged == [][theme' = theme]_vars

\* the client changed a colour of the body it was handed, and the theme
\* still yields the body as it was handed out
C24_Witness ==
    /\ Transformed
    /\ \E k \in 1..Len(Body.variableModeValues) :
          /\ Body.variableModeValues[k].value.t = "rgba"
          /\ Body.variableModeValues[k].value.g = ColorSteps
          /\ \E s \in SourcesOf(k) :
                Navigate(ModeTree(theme.collections[s.i], s.m), s.path).value.g = 0
    /\ transformToFigmaVariables(theme, options, 0).requestBody # Body

-----------------------------------------------------------------------------
(* Concurrent calls of FigmaOutputAdapter.transform *)

\* the theme without its first collection
Shorter(th) == [th EXCEPT !.collections = IF @ = <<>> THEN @ ELSE Tail(@)]

\* the options of a call: the defaults, a prefix and a mapping of the
\* caller's own, and a target the gate refuses
CallOptions ==
    { Options(Undefined, Undefined, FALSE, NoStr, NoMapping),
      Options("fileB", Undefined, TRUE, testPrefix, DesignMapping),
      Options("fileA", Undefined, FALSE, NoStr, NoMapping) }

InitConcurrent ==
    /\ \E c \in CollectionLists(ThreeModeTemplates) :
          theme = ThemeFile(c, "fileA")
    /\ options = Options(Undefined, Undefined, FALSE, NoStr, NoMapping)
    /\ Start

\* adapter.transform(th, opts) is called: an async function runs to its
\* first await when it is called, and transform (adapter.ts 42-93) holds
\* none, so the gate and the transformer run before the call returns its
\* promise
CallTransform(p) ==
    /\ calls[p].pc = "idle"
    /\ \E th \in {theme, Shorter(theme)}, opts \in CallOptions :
          LET t == AdapterTransformResult(th, opts, idCounter) IN
          /\ calls' = [calls EXCEPT ![p] = [pc |-> "pending", theme |-> th,
                                            options |-> opts, outcome |-> t]]
          /\ idCounter' = t.counter
    /\ UNCHANGED <<theme, options, result, prevBody, resetSince, conv, builder>>

\* the promise of the call is settled: the caller's await resumes
Settle(p) ==
    /\ calls[p].pc = "pending"
    /\ calls' = [calls EXCEPT ![p].pc = "settled"]
    /\ UNCHANGED <<theme, options, idCounter, result, prevBody, resetSince, conv, builder>>

\* the caller drops the result and is free to call again
Release(p) ==
    /\ calls[p].pc = "settled"
    /\ calls' = [calls EXCEPT ![p] = IdleCall]
    /\ UNCHANGED <<theme, options, idCounter, result, prevBody, resetSince, conv, builder>>

NextConcurrent ==
    \/ \E p \in Callers : CallTransform(p)
    \/ \E p \in Callers : Settle(p)
    \/ \E p \in Callers : Release(p)

SpecConcurrent == InitConcurrent /\ [][NextConcurrent]_vars

\* the numbers of the ids a request body holds
IdNumbers(body) ==
    { body.variableCollections[k].id.n : k \in 1..Len(body.variableCollections) }
      \cup { body.variableCollections[k].initialModeId.n
                : k \in 1..Len(body.variableCollections) }
      \cup { body.variableModes[k].id.n : k \in 1..Len(body.variableModes) }
      \cup { body.variables[k].id.n : k \in 1..Len(body.variables) }

\* the number of ids the ops of a request body declare
IdCount(body) ==
    2 * Len(body.variableCollections) + Len(body.variableModes) + Len(body.variables)

\* C25: calls of FigmaOutputAdapter.transform made while other calls are
\* pending do not interfere through the id counter of the module: the body
\* of every call that was not refused is the body the same call yields when
\* it runs alone, and its ids are numbered from 1 on without a gap.
C25_ConcurrentCallsDoNotInterfere ==
    \A p \in Callers :
        (calls[p].pc # "idle" /\ ~calls[p].outcome.raised) =>
            /\ calls[p].outcome.requestBody
                 = AdapterTransformResult(calls[p].theme, calls[p].options, 0).requestBody
            /\ IdNumbers(calls[p].outcome.requestBody)
                 = 1..IdCount(calls[p].outcome.requestBody)

\* two calls are pending at once, each with a body of its own that holds ids
C25_Witness ==
    /\ \A p \in Callers :
          /\ calls[p].pc = "pending"
          /\ ~calls[p].outcome.raised
          /\ IdCount(calls[p].outcome.requestBody) > 0
    /\ calls[1].outcome.requestBody # calls[2].outcome.requestBody

-----------------------------------------------------------------------------
(* Properties: references between the ops of a request body *)

\* the ids of the collection-create ops
CollectionIds ==
    { Body.variableCollections[k].id : k \in 1..Len(Body.variableCollections) }

\* the mode ids an op of collection id may name: the initial mode of the
\* collection-create op and the modes created for it
ModeIdsOfCollection(id) ==
    { Body.variableCollections[k].initialModeId :
        k \in { j \in 1..Len(Body.variableCollections) :
                   Body.variableCollections[j].id = id } }
      \cup { Body.variableModes[k].id :
               k \in { j \in 1..Len(Body.variableModes) :
                          Body.variableModes[j].variableCollectionId = id } }

\* C26: every request body is closed under reference: the variableId of a
\* mode-value op is the id of a variable-create op of the body, its modeId is
\* the initialModeId or the id of a mode-create op of the collection of that
\* variable, and the variableCollectionId of every mode-create and
\* variable-create op is the id of a collection-create op of the body.
C26_ReferentiallyClosed ==
    Transformed =>
        /\ \A k \in 1..Len(Body.variableModeValues) :
              \E v \in 1..Len(Body.variables) :
                  /\ Body.variables[v].id = Body.variableModeValues[k].variableId
                  /\ Body.variableModeValues[k].modeId
                        \in ModeIdsOfCollection(Body.variables[v].variableCollectionId)
        /\ \A k \in 1..Len(Body.variableModes) :
              Body.variableModes[k].variableCollectionId \in CollectionIds
        /\ \A k \in 1..Len(Body.variables) :
              Body.variables[k].variableCollectionId \in CollectionIds

\* a body of two collections that holds a value under an initial mode and a
\* value under a created mode
C26_Witness ==
    /\ Transformed
    /\ Len(Body.variableCollections) = 2
    /\ \E k, h \in 1..Len(Body.variableModeValues) :
          /\ \E c \in 1..Len(Body.variableCollections) :
                Body.variableCollections[c].initialModeId
                    = Body.variableModeValues[k].modeId
          /\ \E m \in 1..Len(Body.variableModes) :
                Body.variableModes[m].id = Body.variableModeValues[h].modeId

-----------------------------------------------------------------------------
(* Properties: the source check of the report and the safety gate *)

\* C27: the sourceCheck that transformToFigmaVariables stores in the report
\* equals the SourceCheckResult that checkSourceSafety returns for the same
\* theme and options whenever the gate does not raise; in particular the two
\* never disagree on isSameFile.
C27_ReportAgreesWithGate ==
    (Transformed /\ ~checkSourceSafety(theme, options).raised) =>
        Report.sourceCheck = checkSourceSafety(theme, options).value

\* what does hold: the two agree unless both keys are the empty string, and
\* they agree on every field but isSameFile in every case
C27_AgreesUnlessBothKeysEmpty ==
    (Transformed /\ ~checkSourceSafety(theme, options).raised) =>
        /\ [Report.sourceCheck EXCEPT !.isSameFile = FALSE]
             = [checkSourceSafety(theme, options).value EXCEPT !.isSameFile = FALSE]
        /\ (theme.meta.figmaFileKey # "" \/ options.targetFileKey # "")
              => Report.sourceCheck = checkSourceSafety(theme, options).value

-----------------------------------------------------------------------------
(* Properties: references and the paths of the parsed trees *)

\* the text of a reference between its braces
Inner(ref) == SubSeq(ref, 2, Len(ref) - 1)

\* the keys under which the parser stores the token of a variable: the keys
\* of the groups, then the key of the leaf
InsertionKeys(name) == Append(buildTokenPath(name).path, buildTokenPath(name).tokenName)

\* C28: the reference made for an alias whose target is a variable of the
\* file is resolvable: its path split on "." is the sequence of group keys and
\* leaf key under which the parser stores the token of the target, for every
\* name of the target.
C28_ReferenceLeadsToToken ==
    (conv.fn = "createToken" /\ isVariableAlias(conv.in.value)) =>
        \A v \in VariablesWithId(conv.in.variables, conv.in.value.id) :
            Split(Inner(conv.out.value.ref), ".") = InsertionKeys(v.name)

\* what does hold: the two agree for a name that holds no "." and whose last
\* segment is not empty
C28_ResolvableWithoutDots ==
    (conv.fn = "createToken" /\ isVariableAlias(conv.in.value)) =>
        \A v \in VariablesWithId(conv.in.variables, conv.in.value.id) :
            (/\ \A k \in 1..Len(v.name) : v.name[k] # "."
             /\ (v.name = << >> \/ v.name[Len(v.name)] # "/"))
                => Split(Inner(conv.out.value.ref), ".") = InsertionKeys(v.name)

-----------------------------------------------------------------------------
(* Properties: value shapes on the write path *)

\* the shape of value a resolved type requires
RequiredShape(resolvedType) ==
    CASE resolvedType = "COLOR" -> "rgba"
      [] resolvedType = "FLOAT" -> "number"
      [] resolvedType = "STRING" -> "string"
      [] resolvedType = "BOOLEAN" -> "boolean"

\* C29: every mode-value op carries a value of the shape the resolvedType of
\* its variable requires (a colour object for COLOR, a number for FLOAT, a
\* string for STRING, a boolean for BOOLEAN), in every mode, also in a mode
\* whose leaf is of another type than the default-mode leaf; and a leaf that
\* a mode holds at the path of an emitted variable does not disappear: it has
\* a mode-value op, a Skipped entry or a Warning.
C29_ValueShapeAndNoSilentLoss ==
    Transformed =>
        /\ \A k \in 1..Len(Body.variableModeValues) :
              \A v \in 1..Len(Body.variables) :
                  Body.variables[v].id = Body.variableModeValues[k].variableId
                     => Body.variableModeValues[k].value.t
                           = RequiredShape(Body.variables[v].resolvedType)
        /\ \A i \in Collections : \A m \in ModesOf(i) : \A l \in ModeLeaves(i, m) :
              VariableOps(i, l.path) # {}
                 => (\/ \A v \in VariableOps(i, l.path) :
                           ValueOps(Body.variables[v].id, ModeIdOf(i, m)) # {}
                     \/ Recorded(i, m, l))

\* what does hold: the shape of a value is the one required by the type of
\* the leaf of its own mode, and a leaf at the path of an emitted variable
\* has a value or a record unless it is of a composite or unknown type
C29_ShapeOfTheModeLeaf ==
    Transformed =>
        /\ \A k \in 1..Len(Body.variableModeValues) : \A s \in SourcesOf(k) :
              LET modeToken == Navigate(ModeTree(theme.collections[s.i], s.m), s.path)
              IN  Body.variableModeValues[k].value.t
                     = RequiredShape(TOKEN_TYPE_TO_FIGMA(modeToken.type))
        /\ \A i \in Collections : \A m \in ModesOf(i) : \A l \in ModeLeaves(i, m) :
              (VariableOps(i, l.path) # {} /\ l.token.type \in RepresentableKinds)
                 => (\/ \A v \in VariableOps(i, l.path) :
                           ValueOps(Body.variables[v].id, ModeIdOf(i, m)) # {}
                     \/ Recorded(i, m, l))

-----------------------------------------------------------------------------
(* SCSS parser: resolveScssReference *)

\* the call stack holds at most this many frames of resolveScssReference
MaxStack == 4

\* names of SCSS variables and the raw values they are given
ScssNames == { <<"a">>, <<"b">> }

ScssValues ==
    { <<"$","a">>, <<"$","b">>, <<"$","z">>, <<"#","f">>, <<"1","6","p","x">>, << >> }

\* the variable maps: every assignment of raw values to some of the names
ScssMaps == UNION { [S -> ScssValues] : S \in SUBSET ScssNames }

\* variables.get(value.substring(1)) for a value that starts with "$",
\* undefined for any other value
Resolved(value, variables) ==
    IF StartsWithDollar(value) /\ Tail(value) \in DOMAIN variables
    THEN variables[Tail(value)]
    ELSE NoStr

\* if (resolved): the name is defined and its raw value is not empty
Resolves(value, variables) == OrElse(Resolved(value, variables), NoStr) # NoStr

\* resolveScssReference(value, variables) is called
ScssCall ==
    /\ IF conv.fn = "none" THEN TRUE ELSE conv.pc # "running"
    /\ \E variables \in ScssMaps, value \in ScssValues :
          conv' = [fn |-> "resolveScssReference", variables |-> variables,
                   in |-> value, value |-> value, depth |-> 1, pc |-> "running"]
    /\ UNCHANGED <<theme, options, idCounter, result, prevBody, resetSince, builder, calls>>

\* return resolveScssReference(resolved, variables): one more frame
ScssRecurse ==
    /\ conv.fn = "resolveScssReference" /\ conv.pc = "running"
    /\ Resolves(conv.value, conv.variables)
    /\ conv.depth < MaxStack
    /\ conv' = [conv EXCEPT !.value = Resolved(conv.value, conv.variables),
                            !.depth = @ + 1]
    /\ UNCHANGED <<theme, options, idCounter, result, prevBody, resetSince, builder, calls>>

\* the recursive call finds no room on the stack: RangeError
ScssOverflow ==
    /\ conv.fn = "resolveScssReference" /\ conv.pc = "running"
    /\ Resolves(conv.value, conv.variables)
    /\ conv.depth = MaxStack
    /\ conv' = [conv EXCEPT !.pc = "raised"]
    /\ UNCHANGED <<theme, options, idCounter, result, prevBody, resetSince, builder, calls>>

\* return value: every frame hands the value on to its caller
ScssReturn ==
    /\ conv.fn = "resolveScssReference" /\ conv.pc = "running"
    /\ ~Resolves(conv.value, conv.variables)
    /\ conv' = [conv EXCEPT !.pc = "returned"]
    /\ UNCHANGED <<theme, options, idCounter, result, prevBody, resetSince, builder, calls>>

InitScss ==
    /\ theme = ThemeFile(<< >>, Undefined)
    /\ options = Options(Undefined, Undefined, FALSE, NoStr, NoMapping)
    /\ Start

NextScss ==
    \/ ScssCall
    \/ ScssRecurse
    \/ ScssOverflow
    \/ ScssReturn

SpecScss == InitScss /\ [][NextScss]_vars

RECURSIVE ChainEnd(_, _, _)
\* the value at the end of the chain of references that starts at value,
\* followed for at most n references: a value that names no defined variable
ChainEnd(value, variables, n) ==
    IF n = 0 \/ ~StartsWithDollar(value) \/ Tail(value) \notin DOMAIN variables
    THEN value
    ELSE ChainEnd(variables[Tail(value)], variables, n - 1)

\* the chain that starts at value ends: it does not run into a cycle
Acyclic(value, variables) ==
    LET end == ChainEnd(value, variables, Cardinality(DOMAIN variables))
    IN  ~StartsWithDollar(end) \/ Tail(end) \notin DOMAIN variables

\* the chain that starts at value passes through a variable whose value is empty
RECURSIVE PassesEmpty(_, _, _)
PassesEmpty(value, variables, n) ==
    /\ n > 0
    /\ StartsWithDollar(value)
    /\ Tail(value) \in DOMAIN variables
    /\ \/ variables[Tail(value)] = << >>
       \/ PassesEmpty(variables[Tail(value)], variables, n - 1)

\* C30: resolveScssReference terminates for every value and every variable
\* map, maps with a cycle or a variable that names itself included; for a
\* chain without a cycle it returns the value at the end of the chain, a value
\* that does not start with "$" is returned as it is, and so is a reference
\* to a variable that is not defined.
C30_ResolveTerminates ==
    conv.fn = "resolveScssReference" =>
        /\ conv.pc # "raised"
        /\ conv.pc = "returned" =>
              /\ Acyclic(conv.in, conv.variables) =>
                    conv.value = ChainEnd(conv.in, conv.variables,
                                          Cardinality(DOMAIN conv.variables))
              /\ ~StartsWithDollar(conv.in) => conv.value = conv.in
              /\ (StartsWithDollar(conv.in) /\ Tail(conv.in) \notin DOMAIN conv.variables)
                    => conv.value = conv.in

\* what does hold: a call on a chain without a cycle returns, the value at
\* the end of the chain unless the chain passes through an empty value, and
\* a call on a chain with a cycle never returns a value
C30_ResolvesChainsWithoutCycle ==
    conv.fn = "resolveScssReference" =>
        /\ Acyclic(conv.in, conv.variables) => conv.pc # "raised"
        /\ ~Acyclic(conv.in, conv.variables) => conv.pc # "returned"
        /\ conv.pc = "returned" =>
              /\ ~PassesEmpty(conv.in, conv.variables, Cardinality(DOMAIN conv.variables))
                    => conv.value = ChainEnd(conv.in, conv.variables,
                                             Cardinality(DOMAIN conv.variables))
              /\ ~StartsWithDollar(conv.in) => conv.value = conv.in
              /\ (StartsWithDollar(conv.in) /\ Tail(conv.in) \notin DOMAIN conv.variables)
                    => conv.value = conv.in

====
